---- MODULE Spec2Model ----
(***************************************************************************)
(* Message ingestion, deduplication and auto-reply pipeline of             *)
(* messengers-autoreply: the store gateway (src/storage/pocketbase.ts),    *)
(* the aggregator and bot-channel adapters (src/receiver/brevo.ts,         *)
(* src/receiver/telegram.ts) and the webhook entry point with its dedup    *)
(* cache (src/api/api.ts).                                                 *)
(*                                                                         *)
(* Every unit of work (one webhook delivery, one bot update, one direct    *)
(* gateway call) is a process of Procs.  A step of a process runs from the *)
(* resolution of one awaited promise to the next await, which is how the   *)
(* single-threaded event loop interleaves units of work.                   *)
(***************************************************************************)
EXTENDS Integers, Sequences, FiniteSets, TLC

(***************************************************************************)
(* Bounds of the model.                                                    *)
(***************************************************************************)
MaxUnits == 2        \* units of work started in one behaviour
MaxExpiries == 2     \* times the store session expires in one behaviour
MaxFaults == 1       \* store/network failures other than session expiry
MaxTime == 3         \* last clock tick (one tick is 30 minutes)

\* api.ts:25 keeps an id for 3600000 ms; in ticks of 30 minutes that is 2.
TTL == 2

Procs == {"u1", "u2"}
EventIds == {"m1", "m2"}
PlatformChatIds == {"t1", "t2"}
Texts == {"", "Hola"}

\* models/index.ts:1 MessageSource
MessageSource == {"telegram", "whatsapp", "instagram", "widget"}

VARIABLES
  chats,                \* store collection 'chats': id = index in the sequence
  messages,             \* store collection 'messages'
  media,                \* store collection 'media': number of records
  sessionValid,         \* the store accepts the token held in pb.authStore
  authRetryInProgress,  \* pocketbase.ts:7
  processedMessages,    \* api.ts:17 Map<event id, first-seen time>
  now,                  \* Date.now(), in ticks
  unit,                 \* per process: the handler's position and locals
  call,                 \* per process: the store-gateway call in progress
  started,              \* units of work started so far
  expiries,             \* session expiries so far
  faults,               \* injected failures so far
  markedAt,             \* per event id: time of the latest processedMessages.set
  procLog,              \* per event id: times at which downstream processing began
  focReturned,          \* per <<source, platformChatId>>: chat ids findOrCreateChat returned
  threads               \* assistant threads created so far (client.beta.threads.create)

vars == <<chats, messages, media, sessionValid, authRetryInProgress,
          processedMessages, now, unit, call, started, expiries, faults,
          markedAt, procLog, focReturned, threads>>

storeVars == <<chats, messages, media>>
dedupVars == <<processedMessages, markedAt, procLog>>
envVars == <<sessionValid, authRetryInProgress, expiries, faults>>

(***************************************************************************)
(* Canonical model (models/index.ts) as the store keeps it.  The display   *)
(* name and the 'updated' stamp of a chat and the sender name of a message *)
(* are not read by any step modelled here.  A time stamp is the time value *)
(* of the Date, in the unit of the event's clock.                          *)
(***************************************************************************)
NoChat == [id |-> 0, platformChatId |-> "", source |-> "",
           autoMode |-> FALSE, openAIThreadId |-> ""]

NoMsg == [platformMessageId |-> "", source |-> "", chatId |-> 0, type |-> "",
          content |-> "", mediaFileId |-> 0, isIncoming |-> FALSE,
          senderId |-> "", responseMode |-> "", timestamp |-> 0]

NoArg == [pid |-> "", source |-> "", id |-> 0, chat |-> NoChat, msg |-> NoMsg,
          mode |-> FALSE]

\* The Chat object a gateway method builds from record i (pocketbase.ts:115-123, 152-160).
ChatOf(i) == [id |-> i, platformChatId |-> chats[i].platformChatId,
              source |-> chats[i].source, autoMode |-> chats[i].autoMode,
              openAIThreadId |-> chats[i].openAIThreadId]

\* The record of a Chat object, as pb.collection('chats').create/update stores it.
ChatRecord(c) == [platformChatId |-> c.platformChatId, source |-> c.source,
                  autoMode |-> c.autoMode, openAIThreadId |-> c.openAIThreadId]

Min(S) == CHOOSE x \in S : \A y \in S : x <= y

\* pocketbase.ts:150 getFirstListItem(`platformChatId="${id}"`): the first chat
\* whose platformChatId matches (the filter does not name the source); 0 = 404.
LookupChatNoMatch(pid) == 0
LookupChat(pid) ==
  LET hits == {i \in 1..Len(chats) : chats[i].platformChatId = pid}
  IN  IF hits = {} THEN 0 ELSE Min(hits)

\* pocketbase.ts:90 getFirstListItem(`platformMessageId=... && senderId=...`).
LookupMessage(mid, sender) ==
  LET hits == {i \in 1..Len(messages) :
                 /\ messages[i].platformMessageId = mid
                 /\ messages[i].senderId = sender}
  IN  IF hits = {} THEN 0 ELSE Min(hits)

\* pocketbase.ts:167-174: the chat findOrCreateChat creates when the lookup misses.
NewChat(pid, source) ==
  [id |-> 0, platformChatId |-> pid, source |-> source,
   autoMode |-> FALSE, openAIThreadId |-> ""]

(***************************************************************************)
(* Store gateway (src/storage/pocketbase.ts).  A call is                   *)
(*   m       the exported method that was called                           *)
(*   op      the request it is issuing: findOrCreateChat issues "findchat" *)
(*           and then, through saveChat, "createchat"                      *)
(*   ph      "req" request in flight, "auth" handleAuthError awaiting      *)
(*           authenticate(), "ret" returned                                *)
(*   tries   requests issued for op by this call and its re-invocations    *)
(*   reauths re-authentications performed for op                           *)
(*   n403    403 answers received by the call                              *)
(*   out     "ok" a value, "null" null/undefined, "throw" an exception     *)
(*   busy    a session-expiry 403 of the call reached handleAuthError      *)
(*           while another call's re-authentication was in flight          *)
(***************************************************************************)
Methods == {"saveMessage", "saveMediaFile", "getMessageById", "saveChat",
            "updateResponseMode", "findOrCreateChat", "getChats",
            "getChatById", "getMediaRecord"}

NoCall == [m |-> "none", op |-> "none", ph |-> "ret", tries |-> 0, reauths |-> 0,
           n403 |-> 0, out |-> "none", val |-> 0, res |-> NoChat, err |-> 0,
           arg |-> NoArg, busy |-> FALSE]

\* The first request of each method.
FirstOp(m, arg) ==
  CASE m = "saveMessage"        -> "createmsg"
    [] m = "saveMediaFile"      -> "createmedia"
    [] m = "getMessageById"     -> "findmsg"
    [] m = "saveChat"           -> IF arg.chat.id # 0 THEN "updatechat" ELSE "createchat"
    [] m = "updateResponseMode" -> "updatemode"
    [] m = "findOrCreateChat"   -> "findchat"
    [] m = "getChats"           -> "listchats"
    [] m = "getChatById"        -> "getchat"
    [] m = "getMediaRecord"     -> "getmedia"

NewCall(m, arg) == [NoCall EXCEPT !.m = m, !.op = FirstOp(m, arg), !.ph = "req",
                                  !.arg = arg]

\* The function whose try/catch surrounds the request in flight.
FnOf(c) == IF c.op \in {"createchat", "updatechat"} THEN "saveChat" ELSE c.m

\* HTTP status of a store answer; "e403" is the 403 whose message holds
\* "perform this action" (an expired or missing superuser session), "e403x" any other 403.
Status(r) ==
  CASE r = "ok" -> 200 [] r = "e400" -> 400 [] r = "e403" -> 403
    [] r = "e403x" -> 403 [] r = "e404" -> 404 [] OTHER -> 500

PermMessage(r) == r = "e403"

\* Which catch blocks test err.status === 403 and call handleAuthError:
\* getMessageById :95, saveChat :125, findOrCreateChat :163, getChats :204,
\* getChatById :215.  saveMessage :64-69, saveMediaFile :80-85,
\* updateResponseMode :138-141 and getMediaRecord :226-228 do not.
RetriesOn403(f) == f \in {"getMessageById", "saveChat", "findOrCreateChat",
                          "getChats", "getChatById"}

\* pocketbase.ts:31: handleAuthError goes on to authenticate().
HandleAuthErrorStarts(r) ==
  Status(r) = 403 /\ PermMessage(r) /\ ~authRetryInProgress

\* pocketbase.ts:185-188: the outer catch of findOrCreateChat.
FindOrCreateChatCatchRethrows == "throw"
FindOrCreateChatCatch == "null"

\* pocketbase.ts:64-69: the catch of saveMessage logs and rethrows.
SaveMessageCatchSwallows == "ok"
SaveMessageCatch == "throw"

\* How method m ends when the error with this status reaches its catch block
\* and no retry is made.
OnError(m, status) ==
  CASE m = "findOrCreateChat" -> FindOrCreateChatCatch
    [] m = "saveMessage"      -> SaveMessageCatch
    [] m = "getMessageById"   -> IF status \in {400, 404} THEN "null" ELSE "throw"
    [] m = "getChatById"      -> "null"
    [] m = "getMediaRecord"   -> "null"
    [] OTHER                  -> "throw"

\* What the store answers to a request it accepts.
NormalReply(c) ==
  CASE c.op = "findchat" -> IF LookupChat(c.arg.pid) # 0 THEN "ok" ELSE "e404"
    [] c.op = "findmsg"  ->
         IF LookupMessage(c.arg.msg.platformMessageId, c.arg.msg.senderId) # 0
         THEN "ok" ELSE "e404"
    [] c.op \in {"getchat", "updatemode"} ->
         IF c.arg.id \in 1..Len(chats) THEN "ok" ELSE "e404"
    [] c.op = "updatechat" ->
         IF c.arg.chat.id \in 1..Len(chats) THEN "ok" ELSE "e404"
    [] c.op = "getmedia" -> IF c.arg.id \in 1..media THEN "ok" ELSE "e404"
    [] OTHER -> "ok"

\* Failures the store or the network may answer with instead: a validation
\* error for a write, another 403 for a read, a server or transport error.
FaultReplies(op) ==
  IF op \in {"createchat", "updatechat", "createmsg", "createmedia", "updatemode"}
  THEN {"e400", "e500"} ELSE {"e403x", "e500"}

\* An expired session is answered 403 "... perform this action".
StoreReplies(c) ==
  IF ~sessionValid THEN {"e403"}
  ELSE {NormalReply(c)} \cup (IF faults < MaxFaults THEN FaultReplies(c.op) ELSE {})

\* The store's effect of an accepted request and the value it answers with.
ChatsAfter(c) ==
  CASE c.op = "createchat" -> Append(chats, ChatRecord(c.arg.chat))
    [] c.op = "updatechat" -> [chats EXCEPT ![c.arg.chat.id] = ChatRecord(c.arg.chat)]
    [] c.op = "updatemode" -> [chats EXCEPT ![c.arg.id].autoMode = c.arg.mode]
    [] OTHER -> chats

MessagesAfterDrops(c) == messages
MessagesAfterOverwrites(c) ==
  IF c.op # "createmsg" THEN messages
  ELSE IF messages = <<>> THEN <<c.arg.msg>>
  ELSE [messages EXCEPT ![Len(messages)] = c.arg.msg]
MessagesAfter(c) ==
  IF c.op = "createmsg" THEN Append(messages, c.arg.msg) ELSE messages

MediaAfter(c) == IF c.op = "createmedia" THEN media + 1 ELSE media

ValueOf(c) ==
  CASE c.op = "createchat"  -> Len(chats) + 1
    [] c.op = "updatechat"  -> c.arg.chat.id
    [] c.op = "createmsg"   -> Len(messages) + 1
    [] c.op = "createmedia" -> media + 1
    [] c.op = "findchat"    -> LookupChat(c.arg.pid)
    [] c.op = "findmsg"     -> LookupMessage(c.arg.msg.platformMessageId,
                                             c.arg.msg.senderId)
    [] c.op = "listchats"   -> Len(chats)
    [] OTHER                -> c.arg.id

ResOf(c) ==
  CASE c.op = "createchat" -> [c.arg.chat EXCEPT !.id = Len(chats) + 1]
    [] c.op = "updatechat" -> c.arg.chat
    [] c.op = "findchat"   -> ChatOf(LookupChat(c.arg.pid))
    [] c.op = "getchat"    -> ChatOf(c.arg.id)
    [] OTHER               -> NoChat

\* The store answers the request in flight and the method's continuation runs
\* up to its next await or its return:
\*  - a value is returned;
\*  - 403 in a method that retries, handleAuthError accepting it: the flag is
\*    set and authenticate() is awaited (pocketbase.ts:31-35);
\*  - 400/404 on the lookup of findOrCreateChat: saveChat(new chat) is called
\*    (pocketbase.ts:166-176);
\*  - anything else ends the method as its catch block says.
GwReply(p) ==
  /\ call[p].ph = "req"
  /\ \E r \in StoreReplies(call[p]) :
       LET c == [call[p] EXCEPT !.tries = @ + 1,
                                !.n403 = IF Status(r) = 403 THEN @ + 1 ELSE @,
                                !.busy = @ \/ (/\ Status(r) = 403
                                               /\ PermMessage(r)
                                               /\ RetriesOn403(FnOf(call[p]))
                                               /\ authRetryInProgress)]
           retry == /\ Status(r) = 403
                    /\ RetriesOn403(FnOf(c))
                    /\ HandleAuthErrorStarts(r)
           miss == /\ c.m = "findOrCreateChat"
                   /\ c.op = "findchat"
                   /\ Status(r) \in {400, 404}
       IN  /\ faults' = IF sessionValid /\ r # NormalReply(call[p])
                        THEN faults + 1 ELSE faults
           /\ chats' = IF r = "ok" THEN ChatsAfter(c) ELSE chats
           /\ messages' = IF r = "ok" THEN MessagesAfter(c) ELSE messages
           /\ media' = IF r = "ok" THEN MediaAfter(c) ELSE media
           /\ authRetryInProgress' = (authRetryInProgress \/ retry)
           /\ call' = [call EXCEPT ![p] =
                IF r = "ok"
                THEN [c EXCEPT !.ph = "ret", !.out = "ok", !.val = ValueOf(c),
                               !.res = ResOf(c)]
                ELSE IF retry THEN [c EXCEPT !.ph = "auth"]
                ELSE IF miss
                THEN [c EXCEPT !.op = "createchat", !.tries = 0, !.reauths = 0,
                               !.arg.chat = NewChat(c.arg.pid, c.arg.source)]
                ELSE [c EXCEPT !.ph = "ret", !.out = OnError(c.m, Status(r)),
                               !.err = Status(r)]]
           /\ focReturned' =
                IF r = "ok" /\ c.m = "findOrCreateChat"
                THEN [focReturned EXCEPT ![<<c.arg.source, c.arg.pid>>] =
                                             @ \cup {ValueOf(c)}]
                ELSE focReturned
  /\ UNCHANGED <<sessionValid, dedupVars, now, unit, started, expiries, threads>>

\* authenticate() settles inside handleAuthError (pocketbase.ts:35-42): the
\* flag is cleared; on success the method calls itself again (:96, :126, :164,
\* :205, :216), on failure handleAuthError answers false and the 403 goes on
\* through the catch block.
GwAuthDone(p) ==
  /\ call[p].ph = "auth"
  /\ \E okAuth \in (IF faults < MaxFaults THEN BOOLEAN ELSE {TRUE}) :
       /\ faults' = IF okAuth THEN faults ELSE faults + 1
       /\ sessionValid' = (sessionValid \/ okAuth)
       /\ call' = [call EXCEPT ![p] =
            IF okAuth THEN [call[p] EXCEPT !.ph = "req", !.reauths = @ + 1]
            ELSE [call[p] EXCEPT !.ph = "ret", !.out = OnError(call[p].m, 403),
                                 !.err = 403]]
  /\ authRetryInProgress' = FALSE
  /\ UNCHANGED <<storeVars, dedupVars, now, unit, started, expiries, focReturned,
                 threads>>

\* The superuser session held in pb.authStore expires at the store.
ExpireSession ==
  /\ sessionValid
  /\ expiries < MaxExpiries
  /\ sessionValid' = FALSE
  /\ expiries' = expiries + 1
  /\ UNCHANGED <<storeVars, authRetryInProgress, dedupVars, now, unit, call,
                 started, faults, focReturned, threads>>

(***************************************************************************)
(* Units of work.  A unit is                                               *)
(*   kind      "gateway" a direct call of a gateway method by one of its   *)
(*             callers, "brevohook" a webhook delivery, "tgText",          *)
(*             "tgPhoto", "tgVoice" a bot update                           *)
(*   pc        the await the handler is suspended at; "done" returned      *)
(*   ev        the event: webhook body or bot update (visitor: the body    *)
(*             has its visitor descriptor)                                 *)
(*   platform, isIncoming   arguments of processBrevoMessage               *)
(*   chat      the Chat findOrCreateChat returned (id 0: null)             *)
(*   mediaFileId  0: undefined                                             *)
(*   msg       the Message handed to saveMessage                           *)
(* and a record of what the unit did: saved (its inbound Message is in the *)
(* store), ai (responder invocations), sent (replies delivered), thrown    *)
(* (an exception left the handler), resp (the webhook's answer), nproc     *)
(* (processAgentMessage/processBrevoMessage calls made by the delivery),   *)
(* mediaFailed (download or media save failed), saveFailed (saveMessage of *)
(* the inbound Message failed), nullChat (findOrCreateChat answered null), *)
(* snap (focReturned when the unit called findOrCreateChat), outSaved (the  *)
(* unit saved an outbound Message).  A responder invocation (kind          *)
(* "responder") also keeps thr (threadId of handleTextMessage), h0 and     *)
(* threads0 (the chat's stored handle and the threads created, when it     *)
(* began), elapsed (Date.now() - startTime, in seconds), polls (runs.      *)
(* retrieve calls), inner (control is inside the inner try of              *)
(* handleImageMessage/handleAudioMessage), cause (why it failed) and       *)
(* result (what getAIResponse returned), transcript (what the              *)
(* transcription answered: "text", "empty", "blank") and seq (the ordinal  *)
(* of the invocation among the units started), status (the run status last *)
(* retrieved) and listed (what messages.list answered).  A request to the  *)
(* auto-mode endpoint (kind "toggle") keeps chats0 (the chats when it      *)
(* began), updates and refreshes (update requests and refreshAuthentica-   *)
(* tion calls it made) and first403 (its first update was answered 403).   *)
(* An HTTP request carries in ev its path, its X-API-Key header (key), and *)
(* the fields of its body (visitorId, chatId, autoMode; createdAt for a    *)
(* webhook message).                                                       *)
(***************************************************************************)
NoEvent == [id |-> "", shape |-> "", eventName |-> "", type |-> "",
            dummy |-> FALSE, threadId |-> "", vsource |-> "", file |-> "none",
            link |-> FALSE, text |-> "", visitor |-> TRUE, createdAt |-> 0,
            path |-> <<>>, key |-> "", visitorId |-> "", chatId |-> 0,
            autoMode |-> "undefined"]

IdleUnit == [kind |-> "none", pc |-> "idle", ev |-> NoEvent, platform |-> "",
             isIncoming |-> FALSE, chat |-> NoChat, mediaFileId |-> 0,
             msg |-> NoMsg, saved |-> FALSE, ai |-> 0, sent |-> 0,
             thrown |-> FALSE, resp |-> "", nproc |-> 0, mediaFailed |-> FALSE,
             saveFailed |-> FALSE, nullChat |-> FALSE, snap |-> {},
             outSaved |-> FALSE, thr |-> "", h0 |-> "", threads0 |-> 0,
             elapsed |-> 0, polls |-> 0, inner |-> FALSE, cause |-> "",
             result |-> "", transcript |-> "", chats0 |-> <<>>, updates |-> 0,
             refreshes |-> 0, first403 |-> FALSE, seq |-> 0, status |-> "",
             listed |-> ""]

Returned(p) == call[p].ph = "ret"

\* The process runs no unit of work: none yet, or its last one has returned.
Free(p) ==
  /\ \/ unit[p].pc \in {"idle", "done"}
     \/ unit[p].kind = "gateway" /\ Returned(p)
  /\ started < MaxUnits

\* A caller (the responder, an API endpoint, an adapter) calls gateway method m.
\* saveChat is called with a chat read from the store (the responder's
\* thread-handle assignment); only findOrCreateChat calls it with a new chat.
GatewayArgs(m) ==
  CASE m = "findOrCreateChat" ->
         {[NoArg EXCEPT !.pid = pid, !.source = "whatsapp"] : pid \in PlatformChatIds}
    [] m = "saveChat" ->
         {[NoArg EXCEPT !.chat = [ChatOf(i) EXCEPT !.openAIThreadId = "th"]] :
            i \in 1..Len(chats)}
    [] m = "saveMessage" ->
         {[NoArg EXCEPT !.msg = [NoMsg EXCEPT !.platformMessageId = "m1",
                                              !.source = "whatsapp", !.chatId = 1,
                                              !.type = "text", !.content = "Hola",
                                              !.isIncoming = TRUE, !.senderId = "v1",
                                              !.responseMode = "manual"]]}
    [] m = "getMessageById" ->
         {[NoArg EXCEPT !.msg = [NoMsg EXCEPT !.platformMessageId = "m1",
                                              !.senderId = "v1"]]}
    [] m = "updateResponseMode" ->
         {[NoArg EXCEPT !.id = 1, !.mode = b] : b \in BOOLEAN}
    [] OTHER -> {[NoArg EXCEPT !.id = 1]}

StartGateway(p, m) ==
  /\ Free(p)
  /\ \E a \in GatewayArgs(m) :
       /\ call' = [call EXCEPT ![p] = NewCall(m, a)]
       /\ unit' = [unit EXCEPT ![p] =
            [IdleUnit EXCEPT !.kind = "gateway", !.pc = "call",
                             !.snap = IF m = "findOrCreateChat"
                                      THEN focReturned[<<a.source, a.pid>>] ELSE {}]]
  /\ started' = started + 1
  /\ UNCHANGED <<storeVars, envVars, dedupVars, now, focReturned, threads>>

(***************************************************************************)
(* Dedup cache (api.ts:17-29, 76-81).                                      *)
(***************************************************************************)
\* api.ts:76 processedMessages.has(message.id)
HasSeenNever(id) == FALSE
HasSeen(id) == id \in DOMAIN processedMessages

\* api.ts:81 processedMessages.set(message.id, Date.now())
MarkSeenForgets(pm, id, t) == pm
MarkSeen(pm, id, t) ==
  [x \in (DOMAIN pm) \cup {id} |-> IF x = id THEN t ELSE pm[x]]

\* api.ts:25 now - timestamp > 3600000
ExpiredAtOnce(t, stamp) == t - stamp > 0
Expired(t, stamp) == t - stamp > TTL

\* api.ts:22-29: the sweep.  setInterval runs it every 600000 ms; here it may
\* run at any moment, which covers every cadence.
Sweep ==
  /\ processedMessages' =
       [x \in {y \in DOMAIN processedMessages : ~Expired(now, processedMessages[y])}
          |-> processedMessages[x]]
  /\ UNCHANGED <<storeVars, envVars, now, unit, call, started, markedAt, procLog,
                 focReturned, threads>>

\* Thirty minutes pass.
Tick ==
  /\ now < MaxTime
  /\ now' = now + 1
  /\ UNCHANGED <<storeVars, envVars, dedupVars, unit, call, started, focReturned,
                 threads>>

(***************************************************************************)
(* Aggregator adapter: the webhook endpoint (api.ts:66-112) and            *)
(* processAgentMessage / processBrevoMessage (brevo.ts:14-114).            *)
(***************************************************************************)
\* api.ts:83 the delivery carries an agent message.
IsAgent(b) == b.type = "agent"

\* api.ts:87-89, 99-101 the delivery carries a visitor message in the shape
\* its event name announces.
IsVisitor(b) ==
  /\ b.type = "visitor"
  /\ \/ b.eventName = "conversationFragment" /\ b.shape = "messages"
     \/ b.eventName = "conversationStarted" /\ b.shape = "message"

\* brevo.ts:16 the echo marker.
IsEchoNever(b) == FALSE
IsEcho(b) == b.dummy

\* brevo.ts:20-23 the platform of an agent message.
AgentPlatform(b) == IF b.vsource = "widget" THEN "instagram" ELSE b.vsource

\* brevo.ts:41-47, 65 the message type by the attachment descriptor.
BrevoMsgType(b) ==
  IF b.file = "none" THEN "text" ELSE IF b.file = "image" THEN "image" ELSE "audio"

\* brevo.ts:93 new Date(message.createdAt): the Date whose time value is the
\* event's createdAt; without a createdAt (0) it is the invalid Date (-1).
DateOfEpoch(createdAt) == 0
DateOf(createdAt) == IF createdAt = 0 THEN -1 ELSE createdAt

\* brevo.ts:85-97
BrevoMsg(u, mediaFileId) ==
  [platformMessageId |-> u.ev.id, source |-> u.platform, chatId |-> u.chat.id,
   type |-> BrevoMsgType(u.ev), content |-> u.ev.text,
   mediaFileId |-> mediaFileId, isIncoming |-> u.isIncoming,
   senderId |-> IF u.isIncoming THEN "visitor" ELSE "agent",
   responseMode |-> IF u.isIncoming THEN "manual" ELSE "auto",
   timestamp |-> DateOf(u.ev.createdAt)]

\* The handler returns; the webhook answers 200 (api.ts:111).
Finish(u) ==
  [u EXCEPT !.pc = "done",
            !.resp = IF u.kind = "brevohook" THEN "Webhook received successfully"
                     ELSE ""]

FocArg(pid, source) == [NoArg EXCEPT !.pid = pid, !.source = source]

\* api.ts:66-112 up to the first await of the processing: no message, the
\* dedup check and mark (no await lies between them), the routing, and
\* brevo.ts:14-34 up to the call of findOrCreateChat.  Without a visitor
\* descriptor, body.visitor.source (brevo.ts:20, api.ts:93, 105) raises a
\* TypeError that no catch of the handler holds: the framework answers 500.
StartWebhook(p, b) ==
  /\ Free(p)
  /\ started' = started + 1
  /\ LET u0 == [IdleUnit EXCEPT !.kind = "brevohook", !.ev = b]
         routed == IsAgent(b) \/ (IsVisitor(b) /\ b.visitor)
         raises == ~b.visitor /\ (IF IsAgent(b) THEN ~IsEcho(b) ELSE IsVisitor(b))
         toChat == (IsAgent(b) /\ ~IsEcho(b)) \/ (~IsAgent(b) /\ IsVisitor(b))
         plat == IF IsAgent(b) THEN AgentPlatform(b) ELSE b.vsource
     IN
     IF b.shape = "none"
     THEN /\ unit' = [unit EXCEPT ![p] =
                 [u0 EXCEPT !.pc = "done", !.resp = "No message found in webhook"]]
          /\ call' = [call EXCEPT ![p] = NoCall]
          /\ UNCHANGED dedupVars
     ELSE IF HasSeen(b.id)
     THEN /\ unit' = [unit EXCEPT ![p] =
                 [u0 EXCEPT !.pc = "done", !.resp = "Duplicate message skipped"]]
          /\ call' = [call EXCEPT ![p] = NoCall]
          /\ UNCHANGED dedupVars
     ELSE /\ processedMessages' = MarkSeen(processedMessages, b.id, now)
          /\ markedAt' = [markedAt EXCEPT ![b.id] = now]
          /\ procLog' = IF routed
                        THEN [procLog EXCEPT ![b.id] = Append(@, now)]
                        ELSE procLog
          /\ IF raises
             THEN /\ unit' = [unit EXCEPT ![p] =
                       [u0 EXCEPT !.pc = "done", !.thrown = TRUE,
                                  !.nproc = IF IsAgent(b) THEN 1 ELSE 0,
                                  !.resp = "Internal Server Error"]]
                  /\ call' = [call EXCEPT ![p] = NoCall]
             ELSE IF toChat
             THEN /\ unit' = [unit EXCEPT ![p] =
                       [u0 EXCEPT !.pc = "foc", !.nproc = 1, !.platform = plat,
                                  !.isIncoming = ~IsAgent(b),
                                  !.snap = focReturned[<<plat, b.threadId>>]]]
                  /\ call' = [call EXCEPT ![p] =
                       NewCall("findOrCreateChat", FocArg(b.threadId, plat))]
             ELSE /\ unit' = [unit EXCEPT ![p] =
                       Finish([u0 EXCEPT !.nproc = IF routed THEN 1 ELSE 0])]
                  /\ call' = [call EXCEPT ![p] = NoCall]
  /\ UNCHANGED <<storeVars, envVars, now, focReturned, threads>>

SaveMessageCall(m) == NewCall("saveMessage", [NoArg EXCEPT !.msg = m])

\* brevo.ts:36-48, 66: findOrCreateChat has returned.
BrevoAfterChat(p) ==
  /\ unit[p].kind = "brevohook"
  /\ unit[p].pc = "foc"
  /\ Returned(p)
  /\ LET chat == IF call[p].out = "ok" THEN call[p].res ELSE NoChat
         u == [unit[p] EXCEPT !.chat = chat, !.nullChat = (chat.id = 0)]
     IN  IF chat.id = 0
         THEN /\ unit' = [unit EXCEPT ![p] = Finish(u)]
              /\ call' = [call EXCEPT ![p] = NoCall]
         ELSE IF u.ev.file # "none" /\ u.ev.link
         THEN /\ unit' = [unit EXCEPT ![p] = [u EXCEPT !.pc = "fetch"]]
              /\ call' = [call EXCEPT ![p] = NoCall]
         ELSE /\ unit' = [unit EXCEPT ![p] =
                   [u EXCEPT !.pc = "saveMsg", !.msg = BrevoMsg(u, 0)]]
              /\ call' = [call EXCEPT ![p] = SaveMessageCall(BrevoMsg(u, 0))]
  /\ UNCHANGED <<storeVars, envVars, dedupVars, now, started, focReturned,
                 threads>>

\* brevo.ts:49-62, 67-80: fetch(message.file.link) settles: the blob is handed
\* to saveMediaFile, or the download failed (not ok, or a thrown error that
\* the inner catch logs) and the message is built without media.
BrevoFetch(p) ==
  /\ unit[p].kind = "brevohook"
  /\ unit[p].pc = "fetch"
  /\ \E r \in {"ok"} \cup (IF faults < MaxFaults THEN {"notok", "throw"} ELSE {}) :
       /\ faults' = IF r = "ok" THEN faults ELSE faults + 1
       /\ IF r = "ok"
          THEN /\ unit' = [unit EXCEPT ![p].pc = "saveMedia"]
               /\ call' = [call EXCEPT ![p] = NewCall("saveMediaFile", NoArg)]
          ELSE /\ unit' = [unit EXCEPT ![p] =
                    [@ EXCEPT !.pc = "saveMsg", !.mediaFailed = TRUE,
                              !.msg = BrevoMsg(unit[p], 0)]]
               /\ call' = [call EXCEPT ![p] = SaveMessageCall(BrevoMsg(unit[p], 0))]
  /\ UNCHANGED <<storeVars, sessionValid, authRetryInProgress, expiries, dedupVars,
                 now, started, focReturned, threads>>

\* brevo.ts:53-62, 71-80: saveMediaFile has returned or thrown (caught).
BrevoAfterMedia(p) ==
  /\ unit[p].kind = "brevohook"
  /\ unit[p].pc = "saveMedia"
  /\ Returned(p)
  /\ LET mid == IF call[p].out = "ok" THEN call[p].val ELSE 0
         u == [unit[p] EXCEPT !.mediaFileId = mid,
                              !.mediaFailed = (call[p].out # "ok")]
     IN  /\ unit' = [unit EXCEPT ![p] =
              [u EXCEPT !.pc = "saveMsg", !.msg = BrevoMsg(u, mid)]]
         /\ call' = [call EXCEPT ![p] = SaveMessageCall(BrevoMsg(u, mid))]
  /\ UNCHANGED <<storeVars, envVars, dedupVars, now, started, focReturned,
                 threads>>

\* brevo.ts:101-105: the message is inbound and its chat answers automatically.
AutoRepliesAlways(u) == TRUE
AutoReplies(u) == u.isIncoming /\ u.chat.autoMode

\* brevo.ts:99-113: saveMessage has returned, or thrown into the catch of
\* processBrevoMessage.
BrevoAfterSave(p) ==
  /\ unit[p].kind = "brevohook"
  /\ unit[p].pc = "saveMsg"
  /\ Returned(p)
  /\ LET u == [unit[p] EXCEPT !.saved = (call[p].err = 0),
                              !.saveFailed = (call[p].err # 0)]
     IN  unit' = [unit EXCEPT ![p] =
           IF call[p].out = "ok" /\ AutoReplies(u)
           THEN [u EXCEPT !.pc = "ai"]
           ELSE Finish(u)]
  /\ call' = [call EXCEPT ![p] = NoCall]
  /\ UNCHANGED <<storeVars, envVars, dedupVars, now, started, focReturned,
                 threads>>

\* brevo.ts:107: getAIResponse(msg, chat.openAIThreadId) answers the reply text.
BrevoResponder(p) ==
  /\ unit[p].kind = "brevohook"
  /\ unit[p].pc = "ai"
  /\ unit' = [unit EXCEPT ![p].pc = "send", ![p].ai = @ + 1]
  /\ UNCHANGED <<storeVars, envVars, dedupVars, now, call, started, focReturned,
                 threads>>

\* brevo.ts:109, 116-131: sendBrevoMessage delivers the reply, or fails and
\* answers null.
BrevoSend(p) ==
  /\ unit[p].kind = "brevohook"
  /\ unit[p].pc = "send"
  /\ \E ok \in (IF faults < MaxFaults THEN BOOLEAN ELSE {TRUE}) :
       /\ faults' = IF ok THEN faults ELSE faults + 1
       /\ unit' = [unit EXCEPT ![p] =
            Finish([unit[p] EXCEPT !.sent = IF ok THEN @ + 1 ELSE @])]
  /\ UNCHANGED <<storeVars, sessionValid, authRetryInProgress, expiries, dedupVars,
                 now, call, started, focReturned, threads>>

(***************************************************************************)
(* Bot-channel adapter (telegram.ts).  ev.threadId is ctx.chat.id, ev.id   *)
(* is message_id, ev.text the text or the caption.                         *)
(***************************************************************************)
TgKinds == {"tgText", "tgPhoto", "tgVoice"}

\* telegram.ts:50-61, 90-102, 133-145
TgMsg(u, fileId) ==
  [platformMessageId |-> u.ev.id, source |-> "telegram", chatId |-> u.chat.id,
   type |-> CASE u.kind = "tgText" -> "text" [] u.kind = "tgPhoto" -> "image"
              [] OTHER -> "audio",
   content |-> IF u.kind = "tgVoice" THEN "Voice message" ELSE u.ev.text,
   mediaFileId |-> fileId, isIncoming |-> TRUE, senderId |-> "from",
   responseMode |-> "manual", timestamp |-> u.ev.createdAt * 1000]

\* telegram.ts:160-171 the outbound Message of handleOpenAI.
TgAutoMsgManual(u) ==
  [platformMessageId |-> "auto", source |-> "telegram", chatId |-> u.msg.chatId,
   type |-> "text", content |-> "reply", mediaFileId |-> 0, isIncoming |-> FALSE,
   senderId |-> "assistant", responseMode |-> "manual", timestamp |-> now]
TgAutoMsg(u) ==
  [platformMessageId |-> "auto", source |-> "telegram", chatId |-> u.msg.chatId,
   type |-> "text", content |-> "reply", mediaFileId |-> 0, isIncoming |-> FALSE,
   senderId |-> "assistant", responseMode |-> "auto", timestamp |-> now]

\* telegram.ts:176-178, 110-112, 152-154: which handlers run under a try/catch.
\* handleTgTextMessage (:44-68) has none.
TgCatches(kind) == kind \in {"tgPhoto", "tgVoice"}

\* An exception raised in the handler: caught and logged, or it leaves the handler.
TgRaise(u) == [u EXCEPT !.pc = "done", !.thrown = ~TgCatches(u.kind)]

\* telegram.ts:44-48: a text update; findOrCreateChat is called at once.
StartTgText(p, e) ==
  /\ Free(p)
  /\ started' = started + 1
  /\ unit' = [unit EXCEPT ![p] =
       [IdleUnit EXCEPT !.kind = "tgText", !.pc = "foc", !.ev = e,
                        !.platform = "telegram", !.isIncoming = TRUE,
                        !.snap = focReturned[<<"telegram", e.threadId>>]]]
  /\ call' = [call EXCEPT ![p] =
       NewCall("findOrCreateChat", FocArg(e.threadId, "telegram"))]
  /\ UNCHANGED <<storeVars, envVars, dedupVars, now, focReturned, threads>>

\* telegram.ts:70-77, 115-120: a photo or voice update; ctx.api.getFile is awaited.
StartTgMedia(p, kind, e) ==
  /\ Free(p)
  /\ started' = started + 1
  /\ unit' = [unit EXCEPT ![p] =
       [IdleUnit EXCEPT !.kind = kind, !.pc = "getFile", !.ev = e,
                        !.platform = "telegram", !.isIncoming = TRUE]]
  /\ call' = [call EXCEPT ![p] = NoCall]
  /\ UNCHANGED <<storeVars, envVars, dedupVars, now, focReturned, threads>>

\* telegram.ts:77-79, 120-123: getFile settles; fetch(fileUrl) is awaited.
TgGetFile(p) ==
  /\ unit[p].kind \in {"tgPhoto", "tgVoice"}
  /\ unit[p].pc = "getFile"
  /\ \E ok \in (IF faults < MaxFaults THEN BOOLEAN ELSE {TRUE}) :
       /\ faults' = IF ok THEN faults ELSE faults + 1
       /\ unit' = [unit EXCEPT ![p] =
            IF ok THEN [unit[p] EXCEPT !.pc = "fetch"]
            ELSE TgRaise([unit[p] EXCEPT !.mediaFailed = TRUE])]
  /\ UNCHANGED <<storeVars, sessionValid, authRetryInProgress, expiries, dedupVars,
                 now, call, started, focReturned, threads>>

\* telegram.ts:79-86, 123-129: the download settles; a response that is not ok
\* is thrown (:82, :125); the blob is handed to saveMediaFile.
TgFetch(p) ==
  /\ unit[p].kind \in {"tgPhoto", "tgVoice"}
  /\ unit[p].pc = "fetch"
  /\ \E r \in {"ok"} \cup (IF faults < MaxFaults THEN {"notok", "throw"} ELSE {}) :
       /\ faults' = IF r = "ok" THEN faults ELSE faults + 1
       /\ IF r = "ok"
          THEN /\ unit' = [unit EXCEPT ![p].pc = "saveMedia"]
               /\ call' = [call EXCEPT ![p] = NewCall("saveMediaFile", NoArg)]
          ELSE /\ unit' = [unit EXCEPT ![p] =
                    TgRaise([unit[p] EXCEPT !.mediaFailed = TRUE])]
               /\ UNCHANGED call
  /\ UNCHANGED <<storeVars, sessionValid, authRetryInProgress, expiries, dedupVars,
                 now, started, focReturned, threads>>

\* telegram.ts:86-88, 129-131: saveMediaFile has returned the media id, and
\* findOrCreateChat is called; or it has thrown.
TgAfterMedia(p) ==
  /\ unit[p].kind \in {"tgPhoto", "tgVoice"}
  /\ unit[p].pc = "saveMedia"
  /\ Returned(p)
  /\ IF call[p].out = "ok"
     THEN /\ unit' = [unit EXCEPT ![p] =
               [unit[p] EXCEPT !.pc = "foc", !.mediaFileId = call[p].val,
                    !.snap = focReturned[<<"telegram", unit[p].ev.threadId>>]]]
          /\ call' = [call EXCEPT ![p] =
               NewCall("findOrCreateChat", FocArg(unit[p].ev.threadId, "telegram"))]
     ELSE /\ unit' = [unit EXCEPT ![p] =
               TgRaise([unit[p] EXCEPT !.mediaFailed = TRUE])]
          /\ call' = [call EXCEPT ![p] = NoCall]
  /\ UNCHANGED <<storeVars, envVars, dedupVars, now, started, focReturned,
                 threads>>

\* telegram.ts:48-63, 88-104, 131-147: findOrCreateChat has returned; the
\* Message is built with chat!.id! (a TypeError when chat is null) and handed
\* to saveMessage.
TgAfterChat(p) ==
  /\ unit[p].kind \in TgKinds
  /\ unit[p].pc = "foc"
  /\ Returned(p)
  /\ LET chat == IF call[p].out = "ok" THEN call[p].res ELSE NoChat
         u == [unit[p] EXCEPT !.chat = chat, !.nullChat = (chat.id = 0)]
     IN  IF chat.id = 0
         THEN /\ unit' = [unit EXCEPT ![p] = TgRaise(u)]
              /\ call' = [call EXCEPT ![p] = NoCall]
         ELSE /\ unit' = [unit EXCEPT ![p] =
                   [u EXCEPT !.pc = "saveMsg", !.msg = TgMsg(u, u.mediaFileId)]]
              /\ call' = [call EXCEPT ![p] = SaveMessageCall(TgMsg(u, u.mediaFileId))]
  /\ UNCHANGED <<storeVars, envVars, dedupVars, now, started, focReturned,
                 threads>>

\* telegram.ts:63-67, 104-108, 147-151: saveMessage has returned or thrown.
TgAfterSave(p) ==
  /\ unit[p].kind \in TgKinds
  /\ unit[p].pc = "saveMsg"
  /\ Returned(p)
  /\ LET u == [unit[p] EXCEPT !.saved = (call[p].err = 0),
                              !.saveFailed = (call[p].err # 0)]
     IN  unit' = [unit EXCEPT ![p] =
           IF call[p].out # "ok" THEN TgRaise(u)
           ELSE IF u.chat.autoMode THEN [u EXCEPT !.pc = "ai"]
           ELSE Finish(u)]
  /\ call' = [call EXCEPT ![p] = NoCall]
  /\ UNCHANGED <<storeVars, envVars, dedupVars, now, started, focReturned,
                 threads>>

\* telegram.ts:157-173 handleOpenAI: getAIResponse answers the reply text and
\* the outbound Message is handed to saveMessage.
TgHandleOpenAI(p) ==
  /\ unit[p].kind \in TgKinds
  /\ unit[p].pc = "ai"
  /\ unit' = [unit EXCEPT ![p].pc = "saveOut", ![p].ai = @ + 1]
  /\ call' = [call EXCEPT ![p] = SaveMessageCall(TgAutoMsg(unit[p]))]
  /\ UNCHANGED <<storeVars, envVars, dedupVars, now, started, focReturned,
                 threads>>

\* telegram.ts:173-178: saveMessage of the outbound Message has returned, and
\* sendTelegramMessage is awaited; or it has thrown into handleOpenAI's catch.
TgAfterSaveOut(p) ==
  /\ unit[p].kind \in TgKinds
  /\ unit[p].pc = "saveOut"
  /\ Returned(p)
  /\ unit' = [unit EXCEPT ![p] =
       IF call[p].out = "ok" THEN [unit[p] EXCEPT !.pc = "send", !.outSaved = TRUE]
       ELSE Finish(unit[p])]
  /\ call' = [call EXCEPT ![p] = NoCall]
  /\ UNCHANGED <<storeVars, envVars, dedupVars, now, started, focReturned,
                 threads>>

\* telegram.ts:174-187: sendTelegramMessage delivers the reply, or rethrows
\* into handleOpenAI's catch.
TgSend(p) ==
  /\ unit[p].kind \in TgKinds
  /\ unit[p].pc = "send"
  /\ \E ok \in (IF faults < MaxFaults THEN BOOLEAN ELSE {TRUE}) :
       /\ faults' = IF ok THEN faults ELSE faults + 1
       /\ unit' = [unit EXCEPT ![p] =
            Finish([unit[p] EXCEPT !.sent = IF ok THEN @ + 1 ELSE @])]
  /\ UNCHANGED <<storeVars, sessionValid, authRetryInProgress, expiries, dedupVars,
                 now, call, started, focReturned, threads>>

\* api.ts:262-301 PATCH /api/chats/:chatId/autoMode when getChatById finds
\* the chat and the update is accepted.
ToggleAutoMode(i, v) ==
  /\ sessionValid
  /\ i \in 1..Len(chats)
  /\ chats[i].autoMode # v
  /\ chats' = [chats EXCEPT ![i].autoMode = v]
  /\ UNCHANGED <<messages, media, envVars, dedupVars, now, unit, call, started,
                 focReturned, threads>>

Init ==
  /\ chats = <<>>
  /\ messages = <<>>
  /\ media = 0
  /\ sessionValid = TRUE
  /\ authRetryInProgress = FALSE
  /\ processedMessages = <<>>
  /\ now = 0
  /\ unit = [p \in Procs |-> IdleUnit]
  /\ call = [p \in Procs |-> NoCall]
  /\ started = 0
  /\ expiries = 0
  /\ faults = 0
  /\ markedAt = [e \in EventIds |-> -1]
  /\ procLog = [e \in EventIds |-> <<>>]
  /\ focReturned = [k \in MessageSource \X PlatformChatIds |-> {}]
  /\ threads = 0

(***************************************************************************)
(* SpecGateway: the gateway's methods called concurrently by two units of  *)
(* work while the session may expire and the store may fail.               *)
(***************************************************************************)
NextGateway ==
  \/ \E p \in Procs, m \in Methods : StartGateway(p, m)
  \/ \E p \in Procs : GwReply(p)
  \/ \E p \in Procs : GwAuthDone(p)
  \/ ExpireSession

SpecGateway == Init /\ [][NextGateway]_vars

(***************************************************************************)
(* SpecSeq: one caller calling the gateway's methods one after another.    *)
(***************************************************************************)
NextSeq ==
  \/ \E m \in Methods : StartGateway("u1", m)
  \/ GwReply("u1")
  \/ GwAuthDone("u1")
  \/ ExpireSession

SpecSeq == Init /\ [][NextSeq]_vars

(***************************************************************************)
(* Claims about the store gateway.                                         *)
(***************************************************************************)

\* C3: findOrCreateChat is idempotent.  A call made after an earlier call
\* for the same (source, platformChatId) has returned a chat returns that
\* same chat id and creates no chat record (it returns from the lookup).
C3_FindOrCreateChatIdempotent ==
  \A p \in Procs :
    ( /\ call[p].m = "findOrCreateChat"
      /\ Returned(p)
      /\ call[p].out = "ok"
      /\ unit[p].snap # {} )
    => /\ unit[p].snap = {call[p].val}
       /\ call[p].op = "findchat"

\* A second call for a pair already answered has returned a chat.
C3_Witness ==
  \E p \in Procs :
    /\ call[p].m = "findOrCreateChat"
    /\ Returned(p)
    /\ call[p].out = "ok"
    /\ unit[p].snap # {}
    /\ Len(chats) = 1

\* Chats of a (source, platformChatId) pair.
ChatsOfPair(src, pid) ==
  {i \in 1..Len(chats) : chats[i].source = src /\ chats[i].platformChatId = pid}

\* C4: the store holds exactly one Chat for each (source, platformChatId)
\* pair that findOrCreateChat has been asked for and has answered, whatever
\* the interleaving of the units of work.
C4_ExactlyOneChatPerPair ==
  \A k \in DOMAIN focReturned :
    focReturned[k] # {} => Cardinality(ChatsOfPair(k[1], k[2])) = 1

\* C5: a gateway call that meets 403 re-authenticates once and retries once:
\* no operation is requested more than twice and no call re-authenticates
\* more than once for it.
C5_AtMostTwoAttempts ==
  \A p \in Procs : call[p].tries <= 2 /\ call[p].reauths <= 1

\* C6: every gateway method re-authenticates and retries on a session-expiry
\* 403, so a call that met one expired session, with nothing else failing,
\* does not end on that 403.
C6_SingleExpiryNeverFails ==
  \A p \in Procs :
    ( /\ call[p].m \in Methods
      /\ Returned(p)
      /\ call[p].n403 = 1
      /\ faults = 0 )
    => call[p].err # 403

\* C7: findOrCreateChat never throws; every failure ends in null.
C7_FindOrCreateChatNeverThrows ==
  \A p \in Procs :
    call[p].m = "findOrCreateChat" /\ Returned(p) => call[p].out \in {"ok", "null"}

\* findOrCreateChat has returned null after a failed creation, after a lookup
\* error other than not-found, and after a refused or failed re-authentication.
C7_Witness ==
  \E p \in Procs :
    /\ call[p].m = "findOrCreateChat"
    /\ Returned(p)
    /\ call[p].out = "null"
    /\ call[p].err \in {400, 403, 500}

\* C31: concurrent session refreshes are tolerated: a call whose
\* session-expiry 403 arrives while another call's re-authentication is in
\* flight is retried all the same; it does not end with that 403 without
\* any retry.
C31_ConcurrentRefreshTolerated ==
  \A p \in Procs :
    call[p].busy
    => ~(/\ Returned(p)
         /\ call[p].out # "ok"
         /\ call[p].err = 403
         /\ call[p].reauths = 0)

(***************************************************************************)
(* Events the adapters are given.                                          *)
(***************************************************************************)
\* message.createdAt of the events, in milliseconds.
CreatedAt(id) == IF id = "m1" THEN 1 ELSE 2

Body(id, shape, eventName, type, dummy, threadId, vsource, file, link, text) ==
  [NoEvent EXCEPT !.id = id, !.shape = shape, !.eventName = eventName,
                  !.type = type, !.dummy = dummy, !.threadId = threadId,
                  !.vsource = vsource, !.file = file, !.link = link,
                  !.text = text, !.visitor = TRUE, !.createdAt = CreatedAt(id),
                  !.visitorId = "v1"]

\* Deliveries of every kind the webhook tells apart, for one conversation:
\* a visitor message in either announced shape, a visitor message in a shape
\* its event name does not announce, an agent message, an echo, no message.
DedupKinds ==
  {<<"message", "conversationStarted", "visitor", FALSE>>,
   <<"messages", "conversationFragment", "visitor", FALSE>>,
   <<"messages", "conversationStarted", "visitor", FALSE>>,
   <<"message", "conversationStarted", "agent", FALSE>>,
   <<"messages", "conversationFragment", "agent", TRUE>>,
   <<"none", "conversationStarted", "", FALSE>>}

DedupBodies ==
  {Body("m1", k[1], k[2], k[3], k[4], "t1", "whatsapp", "none", FALSE, "Hola") :
     k \in DedupKinds}
  \cup {Body("m2", "message", "conversationStarted", "visitor", FALSE, "t1",
             "whatsapp", "none", FALSE, "Hola")}

\* Visitor messages of one conversation thread: plain text (two events), an
\* image with a caption, a voice note, an attachment descriptor without a
\* link; and the agent's messages on either origin.
PipeBodies ==
  {Body(f[1], "message", "conversationStarted", "visitor", FALSE, "t1", "whatsapp",
        f[2], f[3], f[4]) :
     f \in {<<"m1", "none", FALSE, "Hola">>, <<"m2", "none", FALSE, "Hola">>,
            <<"m2", "image", TRUE, "Hola">>, <<"m2", "audio", TRUE, "">>,
            <<"m2", "image", FALSE, "">>}}
  \cup {Body("m1", "messages", "conversationFragment", "agent", FALSE, "t1", vs,
             "none", FALSE, "Hola") : vs \in {"whatsapp", "widget"}}

\* Bot updates of one chat: a text, a photo with and without caption, a voice note.
TgUpdates == {[NoEvent EXCEPT !.id = "m1", !.threadId = "t1", !.text = t,
                              !.createdAt = 1] :
                t \in Texts}

TgEvents ==
  {<<"tgText", e>> : e \in {u \in TgUpdates : u.text # ""}}
  \cup {<<"tgPhoto", e>> : e \in TgUpdates}
  \cup {<<"tgVoice", e>> : e \in {u \in TgUpdates : u.text = ""}}

(***************************************************************************)
(* Spec: the ingestion pipeline of both adapters, one unit of work after   *)
(* another, the session expiring and the store and the network failing.    *)
(***************************************************************************)
Pipe == "u1"

Next ==
  \/ \E b \in PipeBodies : StartWebhook(Pipe, b)
  \/ \E k \in TgEvents : k[1] = "tgText" /\ StartTgText(Pipe, k[2])
  \/ \E k \in TgEvents : k[1] # "tgText" /\ StartTgMedia(Pipe, k[1], k[2])
  \/ GwReply(Pipe)
  \/ GwAuthDone(Pipe)
  \/ BrevoAfterChat(Pipe)
  \/ BrevoFetch(Pipe)
  \/ BrevoAfterMedia(Pipe)
  \/ BrevoAfterSave(Pipe)
  \/ BrevoResponder(Pipe)
  \/ BrevoSend(Pipe)
  \/ TgGetFile(Pipe)
  \/ TgFetch(Pipe)
  \/ TgAfterMedia(Pipe)
  \/ TgAfterChat(Pipe)
  \/ TgAfterSave(Pipe)
  \/ TgHandleOpenAI(Pipe)
  \/ TgAfterSaveOut(Pipe)
  \/ TgSend(Pipe)
  \/ \E i \in 1..Len(chats) : ToggleAutoMode(i, TRUE)
  \/ ExpireSession

Spec == Init /\ [][Next]_vars

(***************************************************************************)
(* Claims about the adapters.                                              *)
(***************************************************************************)
Adapters == {"brevohook", "tgText", "tgPhoto", "tgVoice"}

\* C8: when findOrCreateChat answers null, the handler of every adapter stops
\* gracefully: it saves no Message, does not invoke the responder, and lets no
\* exception out.
C8_NullChatStopsGracefully ==
  \A p \in Procs :
    (unit[p].kind \in Adapters /\ unit[p].nullChat)
    => /\ unit[p].pc = "done"
       /\ ~unit[p].saved
       /\ unit[p].ai = 0
       /\ ~unit[p].thrown

\* C9: when saveMessage fails for an inbound event the gateway throws (it
\* never answers a value), and the handling of the event ends there: the
\* responder is not invoked and no reply is sent.
C9_SaveFailureStopsPipeline ==
  \A p \in Procs :
    /\ (call[p].m = "saveMessage" /\ Returned(p) /\ call[p].err # 0)
         => call[p].out = "throw"
    /\ unit[p].saveFailed
         => /\ unit[p].pc = "done"
            /\ ~unit[p].saved
            /\ unit[p].ai = 0
            /\ unit[p].sent = 0

\* The save of a visitor's message failed in a chat that answers automatically.
C9_Witness ==
  \E p \in Procs :
    /\ unit[p].kind \in Adapters
    /\ unit[p].saveFailed
    /\ unit[p].isIncoming
    /\ unit[p].chat.autoMode
    /\ unit[p].pc = "done"

\* C10: an event with an attachment whose download or media save failed, and
\* for which nothing else failed, has its Message saved without mediaFileId.
C10_MediaFailureKeepsMessage ==
  \A p \in Procs :
    ( /\ unit[p].kind \in Adapters
      /\ unit[p].pc = "done"
      /\ unit[p].mediaFailed
      /\ ~unit[p].saveFailed
      /\ ~unit[p].nullChat )
    => /\ unit[p].saved
       /\ unit[p].msg.mediaFileId = 0

\* C16: the responder is invoked only for an inbound message whose chat was in
\* autoMode when the handler looked it up: agent messages and messages of
\* chats in manual mode never reach it.
C16_ResponderOnlyInboundAuto ==
  \A p \in Procs :
    (unit[p].kind \in Adapters /\ (unit[p].ai > 0 \/ unit[p].pc = "ai"))
    => /\ unit[p].isIncoming
       /\ unit[p].msg.isIncoming
       /\ unit[p].chat.autoMode

\* The responder was invoked for a visitor's message in a chat in autoMode.
C16_Witness ==
  \E p \in Procs :
    /\ unit[p].kind = "brevohook"
    /\ unit[p].ai = 1
    /\ unit[p].isIncoming
    /\ unit[p].chat.autoMode

\* C17: within a unit of work the dedup check precedes the save of the inbound
\* Message and the save precedes the auto-reply: whenever the responder is
\* about to run, has run or the reply is being sent, the inbound Message is in
\* the store (and, for a webhook delivery, its id was marked seen).
C17_SavedBeforeReply ==
  \A p \in Procs :
    ( /\ unit[p].kind \in Adapters
      /\ (unit[p].ai > 0 \/ unit[p].pc \in {"ai", "send", "saveOut"}) )
    => /\ unit[p].saved
       /\ \E i \in 1..Len(messages) : messages[i] = unit[p].msg
       /\ unit[p].kind = "brevohook"
            => unit[p].nproc = 1 /\ markedAt[unit[p].ev.id] >= 0

\* The reply of a saved inbound message failed to be sent.
C17_Witness ==
  \E p \in Procs :
    /\ unit[p].kind \in Adapters
    /\ unit[p].pc = "done"
    /\ unit[p].ai = 1
    /\ unit[p].sent = 0
    /\ \E i \in 1..Len(messages) : messages[i] = unit[p].msg

\* C18: for each auto-reply the reply is sent outward and then its outbound
\* Message is saved: a reply that was sent has its outbound Message saved by
\* the unit, and an outbound Message is saved only for a reply already sent.
C18_SendThenPersist ==
  \A p \in Procs :
    (unit[p].kind \in Adapters /\ unit[p].pc = "done")
    => /\ unit[p].sent > 0 => unit[p].outSaved
       /\ unit[p].outSaved => unit[p].sent > 0

\* C19: every stored Message the responder produced has isIncoming false and
\* responseMode auto, and no stored inbound Message has responseMode auto.
C19_OutboundAutoInboundManual ==
  \A i \in 1..Len(messages) :
    /\ messages[i].senderId = "assistant"
         => ~messages[i].isIncoming /\ messages[i].responseMode = "auto"
    /\ messages[i].isIncoming => messages[i].responseMode = "manual"

\* An auto-reply's outbound Message and its inbound Message are in the store.
C19_Witness ==
  \E i, j \in 1..Len(messages) :
    /\ messages[i].senderId = "assistant"
    /\ messages[j].isIncoming
    /\ messages[j].chatId = messages[i].chatId

(***************************************************************************)
(* SpecDedup: webhook deliveries over time, with the sweep.                *)
(***************************************************************************)
NextDedup ==
  \/ \E p \in Procs, b \in DedupBodies : StartWebhook(p, b)
  \/ \E p \in Procs : GwReply(p)
  \/ \E p \in Procs : BrevoAfterChat(p)
  \/ \E p \in Procs : BrevoAfterSave(p)
  \/ Sweep
  \/ Tick

\* The store and the network answer every request: no failure is injected.
InitDedup ==
  /\ chats = <<>>
  /\ messages = <<>>
  /\ media = 0
  /\ sessionValid = TRUE
  /\ authRetryInProgress = FALSE
  /\ processedMessages = <<>>
  /\ now = 0
  /\ unit = [p \in Procs |-> IdleUnit]
  /\ call = [p \in Procs |-> NoCall]
  /\ started = 0
  /\ expiries = 0
  /\ faults = MaxFaults
  /\ markedAt = [e \in EventIds |-> -1]
  /\ procLog = [e \in EventIds |-> <<>>]
  /\ focReturned = [k \in MessageSource \X PlatformChatIds |-> {}]
  /\ threads = 0

SpecDedup == InitDedup /\ [][NextDedup]_vars

(***************************************************************************)
(* Claims about the dedup cache.                                           *)
(***************************************************************************)
\* api.ts:83-109 the delivery is handed to processAgentMessage or processBrevoMessage.
Routed(b) == IsAgent(b) \/ IsVisitor(b)

\* C1: deliveries of one event id within the dedup window lead to one
\* downstream processing attempt: two attempts for an id are more than the
\* window apart, a delivery answered as duplicate made no attempt, and a
\* routed delivery that made no attempt was answered as duplicate.
C1_OneProcessingPerId ==
  /\ \A e \in EventIds : \A i, j \in 1..Len(procLog[e]) :
        i < j => procLog[e][j] - procLog[e][i] > TTL
  /\ \A p \in Procs :
        unit[p].kind = "brevohook" =>
          /\ unit[p].nproc <= 1
          /\ unit[p].resp = "Duplicate message skipped"
               => unit[p].nproc = 0 /\ unit[p].pc = "done"
          /\ (Routed(unit[p].ev) /\ unit[p].nproc = 0)
               => unit[p].resp = "Duplicate message skipped"

\* The same routed event was delivered again while its first delivery was
\* still being handled, and the second delivery was skipped.
C1_Witness ==
  \E p, q \in Procs :
    /\ p # q
    /\ unit[p].kind = "brevohook" /\ unit[q].kind = "brevohook"
    /\ unit[p].ev = unit[q].ev
    /\ Routed(unit[p].ev)
    /\ unit[p].nproc = 1 /\ unit[p].pc = "saveMsg"
    /\ unit[q].resp = "Duplicate message skipped"

\* C2: an id marked seen less than one hour ago is reported as seen, with
\* the time it was marked, whenever the sweep has run.
C2_SeenWithinWindow ==
  \A e \in EventIds :
    (markedAt[e] >= 0 /\ now - markedAt[e] < TTL)
    => HasSeen(e) /\ processedMessages[e] = markedAt[e]

\* The sweep has removed an id older than the window and kept a younger one.
C2_Witness ==
  /\ markedAt["m1"] >= 0 /\ ~HasSeen("m1")
  /\ markedAt["m2"] >= 0 /\ now - markedAt["m2"] < TTL /\ HasSeen("m2")

(***************************************************************************)
(* Responder (responder/openai.ts): getAIResponse and its three handlers.  *)
(* A responder invocation is a unit of kind "responder".  The strings it   *)
(* returns are named by tags:                                              *)
(*   "apology"  :32 "Извините, произошла ошибка при обработке запроса."    *)
(*   "imageNotFound"    :101        "audioNotFound"     :171               *)
(*   "imageAccessError" :112        "audioAccessError"  :182               *)
(*   "imageStoreError"  :160        "audioProcessError" :231               *)
(*   "transcribeFailed" :210        "noTextRecognized"  :217               *)
(*   "reply" :95, "imageReply" :156, "audioReply" :227                     *)
(*   "emptyReply" :95 the empty string, content.text.value of an empty     *)
(*   assistant text                                                        *)
(***************************************************************************)
\* openai.ts:66 const timeout = 30000, in seconds.
PollTimeout == 30

\* openai.ts:77 setTimeout(resolve, 1000), in seconds.
PollInterval == 1

Apology == "apology"

\* openai.ts:46-47 the id of the n-th thread the assistant creates.
ThreadId(n) == "th" \o ToString(n)

\* openai.ts:30-33 the catch of getAIResponse.
GetAIResponseCatchRethrows == "throw"
GetAIResponseCatch == Apology

\* openai.ts:158-161, 229-232 the inner catch of the image and audio handlers.
InnerCatch(type) ==
  IF type = "image" THEN "imageStoreError" ELSE "audioProcessError"

\* openai.ts:73 Date.now() - startTime > timeout
TimedOutNever(e) == FALSE
TimedOut(e) == e > PollTimeout

\* openai.ts:69 the statuses that end the run without a reply.
TerminalStatuses == {"failed", "cancelled", "expired"}

\* openai.ts:69-71 the status check at the head of the poll loop.
IsTerminalFailedOnly(s) == s = "failed"
IsTerminal(s) == s \in TerminalStatuses

\* openai.ts:81-93 what messages.list (order desc, limit 1) can answer: the
\* latest message is an assistant text, an assistant text with the empty
\* string as value, an assistant message whose content is not text, a user
\* message, or there is no message.
ListAnswers == {"assistantText", "assistantEmpty", "nonText", "user", "none"}

\* openai.ts:86-93 the two checks that throw.
ListRejectsEmptyOnly(o) == o = "none"
ListRejects(o) == o \in {"none", "user", "nonText"}
RunStatuses == {"in_progress", "completed"} \cup TerminalStatuses

\* An external call settles: it may fail while the failure budget lasts.
Outcomes == IF faults < MaxFaults THEN {"ok", "fail"} ELSE {"ok"}

\* getAIResponse returns string r.
RespReturn(u, r) == [u EXCEPT !.pc = "done", !.result = r]

\* An exception is raised at some stage: inside the inner try of the image or
\* audio handler its catch returns the handler's own string; otherwise it
\* reaches the catch of getAIResponse.
RespRaise(u, why) ==
  LET v == [u EXCEPT !.cause = why]
  IN  IF u.inner THEN RespReturn(v, InnerCatch(u.msg.type))
      ELSE IF GetAIResponseCatch = "throw"
      THEN [v EXCEPT !.pc = "done", !.thrown = TRUE]
      ELSE RespReturn(v, GetAIResponseCatch)

\* openai.ts:43-54 handleTextMessage entered with thread handle tid: without
\* one, client.beta.threads.create() is awaited; with one, messages.create.
EnterText(u, tid) ==
  IF tid = "" THEN [u EXCEPT !.pc = "thCreate"]
  ELSE [u EXCEPT !.pc = "msgCreate", !.thr = tid]

\* Messages the adapters hand to the responder for chat i: a text, an image
\* and a voice note with a stored media file, an image and a voice note
\* without one.
RespMessages(i) ==
  {[NoMsg EXCEPT !.platformMessageId = "m1", !.source = chats[i].source,
                 !.chatId = i, !.type = k[1], !.content = k[2],
                 !.mediaFileId = k[3], !.isIncoming = TRUE,
                 !.senderId = "visitor", !.responseMode = "manual"] :
     k \in {<<"text", "Hola", 0>>, <<"image", "Hola", 1>>, <<"image", "", 0>>,
            <<"audio", "", 1>>, <<"audio", "", 0>>}}

\* openai.ts:100, 170 !message.mediaFileId
NoMediaRefNever(m) == FALSE
NoMediaRef(m) == m.mediaFileId = 0

\* openai.ts:18-29, 100-105, 170-175: getAIResponse(message, threadId) is
\* called by an adapter with the handle of the chat it looked up, and runs to
\* its first await.
BeginResponder(p, i, m) ==
  /\ started' = started + 1
  /\ LET u == [IdleUnit EXCEPT !.kind = "responder", !.msg = m, !.ai = 1,
                               !.chat = ChatOf(i),
                               !.h0 = chats[i].openAIThreadId,
                               !.threads0 = threads,
                               !.seq = started + 1]
     IN  unit' = [unit EXCEPT ![p] =
           IF m.type \in {"audio", "voice"}
           THEN IF NoMediaRef(m) THEN RespReturn(u, "audioNotFound")
                ELSE [u EXCEPT !.pc = "fileToken", !.inner = TRUE]
           ELSE IF m.type = "image"
           THEN IF NoMediaRef(m) THEN RespReturn(u, "imageNotFound")
                ELSE [u EXCEPT !.pc = "fileToken", !.inner = TRUE]
           ELSE EnterText(u, chats[i].openAIThreadId)]
  /\ call' = [call EXCEPT ![p] = NoCall]
  /\ UNCHANGED <<storeVars, envVars, dedupVars, now, focReturned, threads>>

\* An adapter that has no unit of work in hand invokes the responder.
StartResponder(p, i, m) ==
  /\ Free(p)
  /\ BeginResponder(p, i, m)

\* openai.ts:105-106, 175-176: getFileToken() settles and getMediaRecord is called.
RespFileToken(p) ==
  /\ unit[p].kind = "responder"
  /\ unit[p].pc = "fileToken"
  /\ \E r \in Outcomes :
       /\ faults' = IF r = "ok" THEN faults ELSE faults + 1
       /\ IF r = "ok"
          THEN /\ unit' = [unit EXCEPT ![p].pc = "mediaRec"]
               /\ call' = [call EXCEPT ![p] =
                    NewCall("getMediaRecord",
                            [NoArg EXCEPT !.id = unit[p].msg.mediaFileId])]
          ELSE /\ unit' = [unit EXCEPT ![p] = RespRaise(unit[p], "error")]
               /\ UNCHANGED call
  /\ UNCHANGED <<storeVars, sessionValid, authRetryInProgress, expiries,
                 dedupVars, now, started, focReturned, threads>>

\* openai.ts:106-108, 176-179: getMediaRecord has returned the record, and
\* the file is fetched; or undefined, and mediaRecord.file raises a TypeError.
RespAfterMediaRecord(p) ==
  /\ unit[p].kind = "responder"
  /\ unit[p].pc = "mediaRec"
  /\ Returned(p)
  /\ unit' = [unit EXCEPT ![p] =
       IF call[p].out = "ok" THEN [unit[p] EXCEPT !.pc = "download"]
       ELSE RespRaise(unit[p], "error")]
  /\ call' = [call EXCEPT ![p] = NoCall]
  /\ UNCHANGED <<storeVars, envVars, dedupVars, now, started, focReturned,
                 threads>>

\* openai.ts:108-120, 179-199: fetch(url) settles: the file goes to the
\* vision model or to the transcription; a response that is not ok returns the
\* access-error string; an error is raised.
RespDownload(p) ==
  /\ unit[p].kind = "responder"
  /\ unit[p].pc = "download"
  /\ \E r \in Outcomes \cup (IF faults < MaxFaults THEN {"notok"} ELSE {}) :
       /\ faults' = IF r = "ok" THEN faults ELSE faults + 1
       /\ unit' = [unit EXCEPT ![p] =
            CASE r = "ok" ->
                   [unit[p] EXCEPT !.pc = IF unit[p].msg.type = "image"
                                          THEN "vision" ELSE "transcribe"]
              [] r = "notok" ->
                   RespReturn(unit[p], IF unit[p].msg.type = "image"
                                       THEN "imageAccessError"
                                       ELSE "audioAccessError")
              [] OTHER -> RespRaise(unit[p], "error")]
  /\ UNCHANGED <<storeVars, sessionValid, authRetryInProgress, expiries,
                 dedupVars, now, call, started, focReturned, threads>>

\* openai.ts:120-154: the vision model answers and handleTextMessage is called
\* with the described image and no thread handle; or the call fails.
RespVision(p) ==
  /\ unit[p].kind = "responder"
  /\ unit[p].pc = "vision"
  /\ \E r \in Outcomes :
       /\ faults' = IF r = "ok" THEN faults ELSE faults + 1
       /\ unit' = [unit EXCEPT ![p] =
            IF r = "ok" THEN EnterText(unit[p], "")
            ELSE RespRaise(unit[p], "error")]
  /\ UNCHANGED <<storeVars, sessionValid, authRetryInProgress, expiries,
                 dedupVars, now, call, started, focReturned, threads>>

\* openai.ts:216 !transcribedText || transcribedText.trim() === "": the
\* transcription is "text", "empty" or "blank" (white space only).
NoTextRecognizedUntrimmed(t) == t = "empty"
NoTextRecognized(t) == t \in {"empty", "blank"}

\* openai.ts:191-226: the conversion (bot-channel audio) and the transcription
\* request settle: handleTextMessage is called with the transcribed text and
\* no thread handle; a response that is not ok and a transcription without
\* text return their strings; an error is raised.
RespTranscribe(p) ==
  /\ unit[p].kind = "responder"
  /\ unit[p].pc = "transcribe"
  /\ \E r \in Outcomes
              \cup (IF faults < MaxFaults THEN {"notok", "empty", "blank"} ELSE {}) :
       LET t == IF r = "ok" THEN "text" ELSE r
           u == [unit[p] EXCEPT !.transcript = t]
       IN  /\ faults' = IF r = "ok" THEN faults ELSE faults + 1
           /\ unit' = [unit EXCEPT ![p] =
                CASE r \in {"ok", "empty", "blank"} ->
                       IF NoTextRecognized(t)
                       THEN RespReturn(u, "noTextRecognized")
                       ELSE EnterText(u, "")
                  [] r = "notok" -> RespReturn(unit[p], "transcribeFailed")
                  [] OTHER       -> RespRaise(unit[p], "error")]
  /\ UNCHANGED <<storeVars, sessionValid, authRetryInProgress, expiries,
                 dedupVars, now, call, started, focReturned, threads>>

\* openai.ts:46-48: client.beta.threads.create() settles: the new thread's id
\* becomes threadId and getChatById(message.chatId) is called.
RespThreadCreate(p) ==
  /\ unit[p].kind = "responder"
  /\ unit[p].pc = "thCreate"
  /\ \E r \in Outcomes :
       /\ faults' = IF r = "ok" THEN faults ELSE faults + 1
       /\ IF r = "ok"
          THEN /\ threads' = threads + 1
               /\ unit' = [unit EXCEPT ![p].pc = "getChat",
                                       ![p].thr = ThreadId(threads + 1)]
               /\ call' = [call EXCEPT ![p] =
                    NewCall("getChatById",
                            [NoArg EXCEPT !.id = unit[p].msg.chatId])]
          ELSE /\ unit' = [unit EXCEPT ![p] = RespRaise(unit[p], "error")]
               /\ UNCHANGED <<call, threads>>
  /\ UNCHANGED <<storeVars, sessionValid, authRetryInProgress, expiries,
                 dedupVars, now, started, focReturned>>

\* openai.ts:49 chat!.openAIThreadId = threadId
HandleNotAssigned(c, thr) == c
HandleAssigned(c, thr) == [c EXCEPT !.openAIThreadId = thr]

\* openai.ts:48-50: getChatById has returned the chat, the handle is assigned
\* to it and saveChat is called; or null, and chat!.openAIThreadId raises.
RespAfterGetChat(p) ==
  /\ unit[p].kind = "responder"
  /\ unit[p].pc = "getChat"
  /\ Returned(p)
  /\ IF call[p].out = "ok"
     THEN /\ unit' = [unit EXCEPT ![p].pc = "saveChat"]
          /\ call' = [call EXCEPT ![p] =
               NewCall("saveChat",
                       [NoArg EXCEPT !.chat = HandleAssigned(call[p].res,
                                                             unit[p].thr)])]
     ELSE /\ unit' = [unit EXCEPT ![p] = RespRaise(unit[p], "error")]
          /\ call' = [call EXCEPT ![p] = NoCall]
  /\ UNCHANGED <<storeVars, envVars, dedupVars, now, started, focReturned,
                 threads>>

\* openai.ts:50-57: saveChat has returned, and messages.create is awaited; or
\* it has thrown.
RespAfterSaveChat(p) ==
  /\ unit[p].kind = "responder"
  /\ unit[p].pc = "saveChat"
  /\ Returned(p)
  /\ unit' = [unit EXCEPT ![p] =
       IF call[p].out = "ok" THEN [unit[p] EXCEPT !.pc = "msgCreate"]
       ELSE RespRaise(unit[p], "error")]
  /\ call' = [call EXCEPT ![p] = NoCall]
  /\ UNCHANGED <<storeVars, envVars, dedupVars, now, started, focReturned,
                 threads>>

\* openai.ts:54-63: threads.messages.create and runs.create settle, and the
\* first runs.retrieve is awaited; or one of them fails.
RespSubmit(p) ==
  /\ unit[p].kind = "responder"
  /\ unit[p].pc = "msgCreate"
  /\ \E r \in Outcomes :
       /\ faults' = IF r = "ok" THEN faults ELSE faults + 1
       /\ unit' = [unit EXCEPT ![p] =
            IF r = "ok" THEN [unit[p] EXCEPT !.pc = "retrieve"]
            ELSE RespRaise(unit[p], "error")]
  /\ UNCHANGED <<storeVars, sessionValid, authRetryInProgress, expiries,
                 dedupVars, now, call, started, focReturned, threads>>

\* openai.ts:63-79: runs.retrieve settles after d seconds with a status, and
\* the loop head runs: completed leaves the loop for messages.list, a
\* terminal status throws, an elapsed time over the timeout throws, anything
\* else sleeps.  startTime is taken after the first retrieval (:65).
RespRetrieve(p) ==
  /\ unit[p].kind = "responder"
  /\ unit[p].pc = "retrieve"
  /\ \E s \in RunStatuses \cup (IF faults < MaxFaults THEN {"error"} ELSE {}),
        d \in {0, 1} :
       LET e == IF unit[p].polls = 0 THEN 0 ELSE unit[p].elapsed + d
           u == [unit[p] EXCEPT !.polls = @ + 1, !.elapsed = e,
                                !.status = IF s = "error" THEN @ ELSE s]
       IN  /\ unit[p].polls = 0 => d = 0
           /\ faults' = IF s = "error" THEN faults + 1 ELSE faults
           /\ unit' = [unit EXCEPT ![p] =
                CASE s = "error"            -> RespRaise(u, "error")
                  [] s = "completed"        -> [u EXCEPT !.pc = "list"]
                  [] IsTerminal(s)          -> RespRaise(u, "runFailed")
                  [] s = "in_progress" /\ TimedOut(e) -> RespRaise(u, "timeout")
                  [] OTHER                  -> [u EXCEPT !.pc = "sleep"]]
  /\ UNCHANGED <<storeVars, sessionValid, authRetryInProgress, expiries,
                 dedupVars, now, call, started, focReturned, threads>>

\* openai.ts:77-78: the timer fires and runs.retrieve is awaited again.
RespSleep(p) ==
  /\ unit[p].kind = "responder"
  /\ unit[p].pc = "sleep"
  /\ unit' = [unit EXCEPT ![p].pc = "retrieve",
                          ![p].elapsed = @ + PollInterval]
  /\ UNCHANGED <<storeVars, envVars, dedupVars, now, call, started,
                 focReturned, threads>>

\* openai.ts:81-95, 156, 227: messages.list settles: the latest assistant text
\* is the reply (wrapped by the image and audio handlers); no message, a
\* message of another role or a content that is not text throws.
RespList(p) ==
  /\ unit[p].kind = "responder"
  /\ unit[p].pc = "list"
  /\ \E r \in {"assistantText"}
              \cup (IF faults < MaxFaults
                    THEN (ListAnswers \ {"assistantText"}) \cup {"fail"} ELSE {}) :
       LET u == [unit[p] EXCEPT !.listed = IF r = "fail" THEN @ ELSE r]
       IN  /\ faults' = IF r = "assistantText" THEN faults ELSE faults + 1
           /\ unit' = [unit EXCEPT ![p] =
                IF r = "fail" \/ ListRejects(r)
                THEN RespRaise(u, "error")
                ELSE RespReturn(u,
                       CASE u.msg.type = "image" -> "imageReply"
                         [] u.msg.type = "audio" -> "audioReply"
                         [] r = "assistantEmpty" -> "emptyReply"
                         [] OTHER                -> "reply")]
  /\ UNCHANGED <<storeVars, sessionValid, authRetryInProgress, expiries,
                 dedupVars, now, call, started, focReturned, threads>>

\* One chat that answers automatically, created by findOrCreateChat and
\* switched to autoMode, and one stored media file.
InitResponder ==
  /\ chats = <<[platformChatId |-> "t1", source |-> "telegram",
                autoMode |-> TRUE, openAIThreadId |-> ""]>>
  /\ messages = <<>>
  /\ media = 1
  /\ sessionValid = TRUE
  /\ authRetryInProgress = FALSE
  /\ processedMessages = <<>>
  /\ now = 0
  /\ unit = [p \in Procs |-> IdleUnit]
  /\ call = [p \in Procs |-> NoCall]
  /\ started = 0
  /\ expiries = 0
  /\ faults = 0
  /\ markedAt = [e \in EventIds |-> -1]
  /\ procLog = [e \in EventIds |-> <<>>]
  /\ focReturned = [k \in MessageSource \X PlatformChatIds |-> {}]
  /\ threads = 0

(***************************************************************************)
(* SpecResponder: responder invocations for one chat, one after another,   *)
(* the assistant, the network and the store failing, the session expiring. *)
(***************************************************************************)
NextResponder ==
  \/ \E i \in 1..Len(chats) : \E m \in RespMessages(i) : StartResponder(Pipe, i, m)
  \/ RespFileToken(Pipe)
  \/ RespAfterMediaRecord(Pipe)
  \/ RespDownload(Pipe)
  \/ RespVision(Pipe)
  \/ RespTranscribe(Pipe)
  \/ RespThreadCreate(Pipe)
  \/ RespAfterGetChat(Pipe)
  \/ RespAfterSaveChat(Pipe)
  \/ RespSubmit(Pipe)
  \/ RespRetrieve(Pipe)
  \/ RespSleep(Pipe)
  \/ RespList(Pipe)
  \/ GwReply(Pipe)
  \/ GwAuthDone(Pipe)
  \/ ExpireSession

SpecResponder == InitResponder /\ [][NextResponder]_vars

(***************************************************************************)
(* Claims about the responder.                                             *)
(***************************************************************************)
ResponderStrings ==
  {Apology, "imageNotFound", "audioNotFound", "imageAccessError",
   "audioAccessError", "imageStoreError", "audioProcessError",
   "transcribeFailed", "noTextRecognized", "reply", "imageReply", "audioReply",
   "emptyReply"}

\* C12: getAIResponse never lets an exception out: whatever fails at whatever
\* stage, the invocation ends by returning a reply string.
C12_ResponderNeverThrows ==
  \A p \in Procs :
    (unit[p].kind = "responder" /\ unit[p].pc = "done")
    => ~unit[p].thrown /\ unit[p].result \in ResponderStrings

\* A text invocation failed at some stage after the thread was created and
\* returned the apology.
C12_Witness ==
  \E p \in Procs :
    /\ unit[p].kind = "responder"
    /\ unit[p].pc = "done"
    /\ unit[p].msg.type = "text"
    /\ unit[p].cause = "error"
    /\ unit[p].thr # ""
    /\ unit[p].result = Apology

\* C13: for text, image and audio messages alike, a run that ends failed,
\* cancelled or expired and a run that exceeds the poll window make the
\* responder return the same apology string.
C13_SameApologyForEveryType ==
  \A p \in Procs :
    ( /\ unit[p].kind = "responder"
      /\ unit[p].pc = "done"
      /\ unit[p].cause \in {"runFailed", "timeout"} )
    => unit[p].result = Apology

C15_ThreadHandleStable ==
  \A p \in Procs :
    (unit[p].kind = "responder" /\ unit[p].h0 # "")
    => /\ chats[unit[p].msg.chatId].openAIThreadId = unit[p].h0
       /\ threads = unit[p].threads0

\* C25: for a voice message whose transcription is empty or white space
\* only the responder returns "Не удалось распознать текст в
\* аудиосообщении." and does not enter the text path: it creates no thread,
\* appends nothing and starts no run.
C25_EmptyTranscriptionNoTextPath ==
  \A p \in Procs :
    (unit[p].kind = "responder" /\ unit[p].transcript \in {"empty", "blank"})
    => /\ unit[p].pc = "done"
       /\ unit[p].result = "noTextRecognized"
       /\ ~unit[p].thrown
       /\ unit[p].thr = ""
       /\ unit[p].polls = 0
       /\ threads = unit[p].threads0

\* The transcription of a stored voice note answered white space only.
C25_Witness ==
  \E p \in Procs :
    /\ unit[p].kind = "responder"
    /\ unit[p].msg.type = "audio"
    /\ unit[p].transcript = "blank"
    /\ unit[p].result = "noTextRecognized"

\* C26: for an image or audio message without mediaFileId the responder
\* returns the not-found reply at once: no gateway call, no download, no
\* vision or transcription request and no text path.
C26_NoMediaRefNotFound ==
  \A p \in Procs :
    (/\ unit[p].kind = "responder"
     /\ unit[p].msg.type \in {"image", "audio", "voice"}
     /\ unit[p].msg.mediaFileId = 0)
    => /\ unit[p].pc = "done"
       /\ unit[p].result = IF unit[p].msg.type = "image" THEN "imageNotFound"
                           ELSE "audioNotFound"
       /\ call[p] = NoCall
       /\ ~unit[p].inner
       /\ unit[p].transcript = ""
       /\ unit[p].thr = ""
       /\ unit[p].polls = 0
       /\ threads = unit[p].threads0

\* A voice note without a stored file, for a chat that has a thread handle.
C26_Witness ==
  \E p \in Procs :
    /\ unit[p].kind = "responder"
    /\ unit[p].msg.type = "audio"
    /\ unit[p].msg.mediaFileId = 0
    /\ unit[p].h0 # ""
    /\ unit[p].result = "audioNotFound"

\* C29: an invocation that creates a thread has the handle stored on the
\* Chat before it appends the content to the thread and before it starts
\* the run: from the append on, the chat holds the handle of the thread the
\* invocation uses.
C29_HandlePersistedBeforeAppend ==
  \A p \in Procs :
    (/\ unit[p].kind = "responder"
     /\ threads > unit[p].threads0
     /\ unit[p].pc \in {"msgCreate", "retrieve", "sleep", "list"})
    => /\ unit[p].thr = ThreadId(threads)
       /\ chats[unit[p].msg.chatId].openAIThreadId = unit[p].thr

\* A text invocation for a chat without a handle created a thread, stored
\* the handle and is polling its run.
C29_Witness ==
  \E p \in Procs :
    /\ unit[p].kind = "responder"
    /\ unit[p].msg.type = "text"
    /\ unit[p].h0 = ""
    /\ unit[p].pc = "retrieve"
    /\ threads = unit[p].threads0 + 1
    /\ chats[unit[p].msg.chatId].openAIThreadId = ThreadId(threads)

\* C32: a run status of failed, cancelled or expired aborts the poll loop at
\* once: the invocation that observed it has ended, with an error reported,
\* without another retrieval, wait or listing.
C32_TerminalStatusAborts ==
  \A p \in Procs :
    (/\ unit[p].kind = "responder"
     /\ unit[p].status \in {"failed", "cancelled", "expired"})
    => /\ unit[p].pc = "done"
       /\ unit[p].cause = "runFailed"
       /\ unit[p].listed = ""
       /\ unit[p].result \in {Apology, "imageStoreError", "audioProcessError"}

\* A run was seen in progress and then expired: the text invocation ended
\* with the apology after the second retrieval.
C32_Witness ==
  \E p \in Procs :
    /\ unit[p].kind = "responder"
    /\ unit[p].msg.type = "text"
    /\ unit[p].status = "expired"
    /\ unit[p].polls = 2
    /\ unit[p].result = Apology

MaxInvocations == 3

\* A text and a captioned image with a stored file.
RaceMessages(i) ==
  {m \in RespMessages(i) : m.type = "text" \/ (m.type = "image" /\ m.mediaFileId # 0)}

\* brevo.ts:105-107, telegram.ts:157-163: an adapter calls getAIResponse with
\* the handle of the chat it looked up; the first two calls may overlap, a
\* later one is made when no invocation is running.
StartRace(p, i, m) ==
  /\ unit[p].pc \in {"idle", "done"}
  /\ started < MaxInvocations
  /\ started >= 2 => \A q \in Procs : unit[q].pc \in {"idle", "done"}
  /\ BeginResponder(p, i, m)

\* openai.ts:63-72: the first runs.retrieve finds the run settled.
RacePoll(p) ==
  /\ RespRetrieve(p)
  /\ unit'[p].pc # "sleep"

\* The chat of InitResponder; no failure is injected.
InitRace ==
  /\ chats = <<[platformChatId |-> "t1", source |-> "telegram",
                autoMode |-> TRUE, openAIThreadId |-> ""]>>
  /\ messages = <<>>
  /\ media = 1
  /\ sessionValid = TRUE
  /\ authRetryInProgress = FALSE
  /\ processedMessages = <<>>
  /\ now = 0
  /\ unit = [p \in Procs |-> IdleUnit]
  /\ call = [p \in Procs |-> NoCall]
  /\ started = 0
  /\ expiries = 0
  /\ faults = MaxFaults
  /\ markedAt = [e \in EventIds |-> -1]
  /\ procLog = [e \in EventIds |-> <<>>]
  /\ focReturned = [k \in MessageSource \X PlatformChatIds |-> {}]
  /\ threads = 0

NextRace ==
  \/ \E p \in Procs, i \in 1..Len(chats) : \E m \in RaceMessages(i) : StartRace(p, i, m)
  \/ \E p \in Procs : RespFileToken(p)
  \/ \E p \in Procs : RespAfterMediaRecord(p)
  \/ \E p \in Procs : RespDownload(p)
  \/ \E p \in Procs : RespVision(p)
  \/ \E p \in Procs : RespThreadCreate(p)
  \/ \E p \in Procs : RespAfterGetChat(p)
  \/ \E p \in Procs : RespAfterSaveChat(p)
  \/ \E p \in Procs : RespSubmit(p)
  \/ \E p \in Procs : RacePoll(p)
  \/ \E p \in Procs : RespList(p)
  \/ \E p \in Procs : GwReply(p)

SpecRace == InitRace /\ [][NextRace]_vars

\* Two invocations that both began while the chat had no handle have
\* returned: the chat holds the handle of the thread one of them created.
RaceConverged ==
  \A p, q \in Procs :
    (/\ p # q
     /\ unit[p].kind = "responder" /\ unit[q].kind = "responder"
     /\ unit[p].h0 = "" /\ unit[q].h0 = ""
     /\ unit[p].pc = "done" /\ unit[q].pc = "done")
    => /\ chats[1].openAIThreadId # ""
       /\ chats[1].openAIThreadId \in {unit[p].thr, unit[q].thr}

\* The invocation of p follows a race: the second invocation, still in the
\* other adapter's hands, began before the first had stored its handle.
AfterRace(p) ==
  \E q \in Procs \ {p} :
    /\ unit[q].kind = "responder"
    /\ unit[q].seq = 2
    /\ unit[q].h0 = ""

\* C30: after two concurrent invocations for a chat without a handle have
\* both completed, the chat holds one non-empty handle, that of a thread one
\* of them created, and every invocation for the chat that starts afterwards
\* uses that handle: the thread it works on is the stored one, and the
\* stored handle stays what it was.
C30_RaceConvergesOnOneHandle ==
  /\ RaceConverged
  /\ \A p \in Procs :
       (unit[p].kind = "responder" /\ unit[p].seq > 2 /\ AfterRace(p))
       => /\ unit[p].h0 # ""
          /\ chats[unit[p].msg.chatId].openAIThreadId = unit[p].h0
          /\ unit[p].thr # "" => unit[p].thr = unit[p].h0

(***************************************************************************)
(* Direct send API: POST /api/messages (api.ts:114-168).  ev.threadId is   *)
(* platformChatId, ev.vsource is source, ev.text is text of the request;   *)
(* "" is a field that is absent or empty, and ev.visitorId is Undefined    *)
(* when the body has no visitorId.                                         *)
(***************************************************************************)
Undefined == "undefined"

\* api.ts:128-139 the Message the handler builds.
ApiMsg(e) ==
  [platformMessageId |-> "api", source |-> e.vsource, chatId |-> 0,
   type |-> "text", content |-> e.text, mediaFileId |-> 0, isIncoming |-> FALSE,
   senderId |-> "api_client", responseMode |-> "manual", timestamp |-> now]

\* api.ts:119 the destructuring default: visitorId = 'text'.
ApiVisitorId(e) == IF e.visitorId = Undefined THEN "text" ELSE e.visitorId

\* api.ts:121 a required field is missing.
ApiMissingField(e) ==
  e.threadId = "" \/ e.vsource = "" \/ e.text = "" \/ ApiVisitorId(e) = ""

\* api.ts:145 the sources the handler sends through the aggregator.
ApiBrevoSourcesAll == {"instagram", "whatsapp", "brevo", "widget"}
ApiBrevoSources == {"instagram", "whatsapp", "brevo"}

\* api.ts:141-149 the adapter the request is sent through ("" none).
ApiAdapter(source) ==
  IF source = "telegram" THEN "telegram"
  ELSE IF source \in ApiBrevoSources THEN "brevo" ELSE ""

MessagesPath == <<"api", "messages">>

\* process.env.API_KEY (api.ts:15)
ApiKey == "k1"

\* Requests for one chat: every source tag, with and without text and
\* visitorId, and one without platformChatId and one without source.
ApiRequests ==
  {[NoEvent EXCEPT !.path = MessagesPath, !.key = ApiKey, !.threadId = "t1",
                   !.vsource = src, !.text = t, !.visitorId = v] :
     src \in {"telegram", "whatsapp", "instagram", "brevo", "widget"},
     t \in Texts, v \in {"v1", "", Undefined}}
  \cup {[NoEvent EXCEPT !.path = MessagesPath, !.key = ApiKey, !.threadId = f[1],
                        !.vsource = f[2], !.text = "Hola", !.visitorId = "v1"] :
          f \in {<<"", "whatsapp">>, <<"t1", "">>}}

\* api.ts:114-149 up to the await of the send: 400 for a missing field or an
\* unsupported source.
StartApiSend(p, e) ==
  /\ Free(p)
  /\ started' = started + 1
  /\ LET u == [IdleUnit EXCEPT !.kind = "apiSend", !.ev = e]
     IN  unit' = [unit EXCEPT ![p] =
           IF ApiMissingField(e)
           THEN [u EXCEPT !.pc = "done", !.resp = "400 Missing required fields"]
           ELSE IF ApiAdapter(e.vsource) # ""
           THEN [u EXCEPT !.pc = "send", !.msg = ApiMsg(e),
                          !.platform = ApiAdapter(e.vsource)]
           ELSE [u EXCEPT !.pc = "done", !.msg = ApiMsg(e),
                          !.resp = "400 Unsupported source"]]
  /\ call' = [call EXCEPT ![p] = NoCall]
  /\ UNCHANGED <<storeVars, envVars, dedupVars, now, focReturned, threads>>

\* api.ts:140-167: the send settles.  sendTelegramMessage rethrows a failure,
\* which the handler's catch answers with 500; sendBrevoMessage answers null
\* on failure and the handler reports success.
ApiSendDone(p) ==
  /\ unit[p].kind = "apiSend"
  /\ unit[p].pc = "send"
  /\ \E r \in Outcomes :
       /\ faults' = IF r = "ok" THEN faults ELSE faults + 1
       /\ unit' = [unit EXCEPT ![p] =
            IF r = "ok"
            THEN [unit[p] EXCEPT !.pc = "done", !.sent = 1,
                                 !.resp = "200 Message sent"]
            ELSE IF unit[p].platform = "telegram"
            THEN [unit[p] EXCEPT !.pc = "done", !.resp = "500 Internal server error"]
            ELSE [unit[p] EXCEPT !.pc = "done", !.resp = "200 Message sent"]]
  /\ UNCHANGED <<storeVars, sessionValid, authRetryInProgress, expiries,
                 dedupVars, now, call, started, focReturned, threads>>

(***************************************************************************)
(* API-key middleware (api.ts:40-55).  A path is the sequence of its       *)
(* segments.                                                               *)
(***************************************************************************)
HealthPath == <<"health">>

\* api.ts:66 `/brevohook/${hookSecret}`
HookPath == <<"brevohook", "secret">>

\* api.ts:262 '/api/chats/:chatId/autoMode'; ev.chatId holds the parameter.
TogglePath == <<"api", "chats", ":chatId", "autoMode">>

\* api.ts:51 the paths the middleware lets through without a key: /health,
\* the webhook path, and whatever starts with /api/files/.
Exempt(path) ==
  \/ path = HealthPath
  \/ path = HookPath
  \/ Len(path) >= 3 /\ SubSeq(path, 1, 2) = <<"api", "files">>

\* api.ts:40-55: next() or the 401 answer; key "" is no header.
AuthGateOpen(e) == "next"
AuthGate(e) ==
  IF Exempt(e.path) THEN "next"
  ELSE IF e.key = "" \/ e.key # ApiKey THEN "401" ELSE "next"

\* api.ts:43-45: the middleware answers 401 and next() is not called.
HttpReject(p, e) ==
  /\ Free(p)
  /\ AuthGate(e) = "401"
  /\ started' = started + 1
  /\ unit' = [unit EXCEPT ![p] =
       [IdleUnit EXCEPT !.kind = "rejected", !.ev = e, !.pc = "done",
                        !.resp = "401 Unauthorized", !.chats0 = chats]]
  /\ call' = [call EXCEPT ![p] = NoCall]
  /\ UNCHANGED <<storeVars, envVars, dedupVars, now, focReturned, threads>>

\* api.ts:57-64 GET /health.
HttpHealth(p, e) ==
  /\ Free(p)
  /\ e.path = HealthPath
  /\ AuthGate(e) = "next"
  /\ started' = started + 1
  /\ unit' = [unit EXCEPT ![p] =
       [IdleUnit EXCEPT !.kind = "health", !.ev = e, !.pc = "done",
                        !.resp = "200 ok"]]
  /\ call' = [call EXCEPT ![p] = NoCall]
  /\ UNCHANGED <<storeVars, envVars, dedupVars, now, focReturned, threads>>

\* api.ts:50-55, 114: the middleware calls next() and the handler runs.
HttpMessages(p, e) ==
  /\ e.path = MessagesPath
  /\ AuthGate(e) = "next"
  /\ StartApiSend(p, e)

(***************************************************************************)
(* Auto-mode endpoint: PATCH /api/chats/:chatId/autoMode (api.ts:262-309). *)
(* ev.chatId is the path parameter, ev.autoMode the body's field ("true",  *)
(* "false", Undefined).                                                    *)
(***************************************************************************)
\* api.ts:288-290 the update request the handler sends to the store itself.
TglRequest(e) ==
  [NoCall EXCEPT !.op = "updatemode", !.ph = "req", !.arg.id = e.chatId,
                 !.arg.mode = (e.autoMode = "true")]

\* api.ts:297-308: the answer after the update (or its retry) settled with
\* store answer r: success, or the error's status through the outer catch.
TglAnswerAlwaysOk(r) == "200 success"
TglAnswer(r) == IF r = "ok" THEN "200 success" ELSE ToString(Status(r)) \o " error"

\* api.ts:262-277 up to the await of getChatById: 400 without autoMode.
StartToggle(p, e) ==
  /\ Free(p)
  /\ started' = started + 1
  /\ LET u == [IdleUnit EXCEPT !.kind = "toggle", !.ev = e, !.chats0 = chats]
     IN  IF e.autoMode = Undefined
         THEN /\ unit' = [unit EXCEPT ![p] =
                   [u EXCEPT !.pc = "done",
                             !.resp = "400 Missing required field: autoMode"]]
              /\ call' = [call EXCEPT ![p] = NoCall]
         ELSE /\ unit' = [unit EXCEPT ![p] = [u EXCEPT !.pc = "tglGet"]]
              /\ call' = [call EXCEPT ![p] =
                   NewCall("getChatById", [NoArg EXCEPT !.id = e.chatId])]
  /\ UNCHANGED <<storeVars, envVars, dedupVars, now, focReturned, threads>>

\* api.ts:50-55, 262: the middleware calls next() and the handler runs.
HttpToggle(p, e) ==
  /\ e.path = TogglePath
  /\ AuthGate(e) = "next"
  /\ StartToggle(p, e)

\* api.ts:277-288: getChatById has returned: null is answered 404, a chat
\* makes the handler send the update.
TglAfterGet(p) ==
  /\ unit[p].kind = "toggle"
  /\ unit[p].pc = "tglGet"
  /\ Returned(p)
  /\ unit' = [unit EXCEPT ![p] =
       IF call[p].out = "ok" THEN [unit[p] EXCEPT !.pc = "tglUpdate"]
       ELSE [unit[p] EXCEPT !.pc = "done", !.resp = "404 Chat not found"]]
  /\ call' = [call EXCEPT ![p] = NoCall]
  /\ UNCHANGED <<storeVars, envVars, dedupVars, now, started, focReturned,
                 threads>>

\* api.ts:287-308: the update settles.  An accepted update is stored and
\* answered with success; a 403 makes the handler await
\* refreshAuthentication(); any other error goes to the outer catch.
TglUpdate(p) ==
  /\ unit[p].kind = "toggle"
  /\ unit[p].pc = "tglUpdate"
  /\ \E r \in StoreReplies(TglRequest(unit[p].ev)) :
       LET req == TglRequest(unit[p].ev)
           u == [unit[p] EXCEPT !.updates = @ + 1]
       IN  /\ faults' = IF sessionValid /\ r # NormalReply(req)
                        THEN faults + 1 ELSE faults
           /\ chats' = IF r = "ok" THEN ChatsAfter(req) ELSE chats
           /\ unit' = [unit EXCEPT ![p] =
                IF r # "ok" /\ Status(r) = 403
                THEN [u EXCEPT !.pc = "tglRefresh", !.first403 = TRUE]
                ELSE [u EXCEPT !.pc = "done", !.resp = TglAnswer(r)]]
  /\ UNCHANGED <<messages, media, sessionValid, authRetryInProgress, expiries,
                 dedupVars, now, call, started, focReturned, threads>>

\* part_000:29-36 refreshAuthentication() settles: the session is valid
\* again and the update is sent once more (api.ts:292-294), or it throws and
\* the outer catch answers.
TglRefresh(p) ==
  /\ unit[p].kind = "toggle"
  /\ unit[p].pc = "tglRefresh"
  /\ \E okAuth \in (IF faults < MaxFaults THEN BOOLEAN ELSE {TRUE}) :
       /\ faults' = IF okAuth THEN faults ELSE faults + 1
       /\ sessionValid' = (sessionValid \/ okAuth)
       /\ unit' = [unit EXCEPT ![p] =
            IF okAuth
            THEN [unit[p] EXCEPT !.pc = "tglRetry", !.refreshes = @ + 1]
            ELSE [unit[p] EXCEPT !.pc = "done", !.refreshes = @ + 1,
                                 !.resp = "500 error"]]
  /\ UNCHANGED <<storeVars, authRetryInProgress, expiries, dedupVars, now, call,
                 started, focReturned, threads>>

\* api.ts:292-308: the second update settles; its error, a 403 included,
\* goes to the outer catch.
TglRetry(p) ==
  /\ unit[p].kind = "toggle"
  /\ unit[p].pc = "tglRetry"
  /\ \E r \in StoreReplies(TglRequest(unit[p].ev)) :
       LET req == TglRequest(unit[p].ev)
       IN  /\ faults' = IF sessionValid /\ r # NormalReply(req)
                        THEN faults + 1 ELSE faults
           /\ chats' = IF r = "ok" THEN ChatsAfter(req) ELSE chats
           /\ unit' = [unit EXCEPT ![p] =
                [unit[p] EXCEPT !.updates = @ + 1, !.pc = "done",
                                !.resp = TglAnswer(r)]]
  /\ UNCHANGED <<messages, media, sessionValid, authRetryInProgress, expiries,
                 dedupVars, now, call, started, focReturned, threads>>

\* Requests to the auto-mode endpoint: the chat that exists and one that
\* does not, each value of autoMode and none.
ToggleRequests ==
  {[NoEvent EXCEPT !.path = TogglePath, !.key = ApiKey, !.chatId = i,
                   !.autoMode = a] :
     i \in {1, 2}, a \in {"true", "false", Undefined}}

HealthRequest == [NoEvent EXCEPT !.path = HealthPath]

Keys == {ApiKey, "wrong", ""}

\* Every request with the right key, with a wrong one and with none.
HttpRequests ==
  {[e EXCEPT !.key = k] :
     e \in ApiRequests \cup ToggleRequests \cup {HealthRequest}, k \in Keys}

\* One chat, created by findOrCreateChat for a bot update, answered manually.
InitApi ==
  /\ chats = <<[platformChatId |-> "t1", source |-> "telegram",
                autoMode |-> FALSE, openAIThreadId |-> ""]>>
  /\ messages = <<>>
  /\ media = 0
  /\ sessionValid = TRUE
  /\ authRetryInProgress = FALSE
  /\ processedMessages = <<>>
  /\ now = 0
  /\ unit = [p \in Procs |-> IdleUnit]
  /\ call = [p \in Procs |-> NoCall]
  /\ started = 0
  /\ expiries = 0
  /\ faults = 0
  /\ markedAt = [e \in EventIds |-> -1]
  /\ procLog = [e \in EventIds |-> <<>>]
  /\ focReturned = [k \in MessageSource \X PlatformChatIds |-> {}]
  /\ threads = 0

(***************************************************************************)
(* SpecApi: requests to the keyed endpoints and to /health, one after      *)
(* another, with the right key, a wrong one or none, the session expiring  *)
(* and the store and the platforms failing.                                *)
(***************************************************************************)
NextApi ==
  \/ \E e \in HttpRequests : HttpReject(Pipe, e)
  \/ \E e \in HttpRequests : HttpHealth(Pipe, e)
  \/ \E e \in HttpRequests : HttpMessages(Pipe, e)
  \/ \E e \in HttpRequests : HttpToggle(Pipe, e)
  \/ ApiSendDone(Pipe)
  \/ TglAfterGet(Pipe)
  \/ TglUpdate(Pipe)
  \/ TglRefresh(Pipe)
  \/ TglRetry(Pipe)
  \/ GwReply(Pipe)
  \/ GwAuthDone(Pipe)
  \/ ExpireSession

SpecApi == InitApi /\ [][NextApi]_vars

(***************************************************************************)
(* Claims about the keyed endpoints.                                       *)
(***************************************************************************)
\* C21: a request to POST /api/messages with platformChatId, source, text or
\* visitorId missing is answered 400 (success false) and nothing is sent
\* to any platform for it.
C21_MissingFieldRejected ==
  \A p \in Procs :
    LET e == unit[p].ev
    IN  (/\ unit[p].kind = "apiSend"
         /\ \/ e.threadId = ""
            \/ e.vsource = ""
            \/ e.text = ""
            \/ e.visitorId \in {"", Undefined})
        => /\ unit[p].pc = "done"
           /\ unit[p].resp = "400 Missing required fields"
           /\ unit[p].platform = ""
           /\ unit[p].sent = 0

\* C22: POST /api/messages routes by the source tag: telegram goes to the
\* bot-channel adapter only, instagram, whatsapp and brevo go to the
\* aggregator adapter only, any other tag is answered 400 with no send, and
\* a request causes at most one send.
C22_RoutesBySourceTag ==
  \A p \in Procs :
    LET e == unit[p].ev
    IN  (unit[p].kind = "apiSend" /\ ~ApiMissingField(e))
        => /\ e.vsource = "telegram" => unit[p].platform = "telegram"
           /\ e.vsource \in {"instagram", "whatsapp", "brevo"}
                => unit[p].platform = "brevo"
           /\ e.vsource \notin {"telegram", "instagram", "whatsapp", "brevo"}
                => /\ unit[p].pc = "done"
                   /\ unit[p].resp = "400 Unsupported source"
                   /\ unit[p].platform = ""
                   /\ unit[p].sent = 0
           /\ unit[p].sent <= 1

\* A request with an unsupported source tag and every field present, the
\* second request served, was answered 400.
C22_Witness ==
  /\ unit[Pipe].kind = "apiSend"
  /\ unit[Pipe].ev.vsource = "widget"
  /\ ~ApiMissingField(unit[Pipe].ev)
  /\ unit[Pipe].resp = "400 Unsupported source"
  /\ started = 2

NoVisitor(b) == [b EXCEPT !.visitor = FALSE]

HookBodies == DedupBodies \cup {NoVisitor(b) : b \in DedupBodies}

NextIngress ==
  \/ \E b \in HookBodies : StartWebhook(Pipe, b)
  \/ GwReply(Pipe)
  \/ BrevoAfterChat(Pipe)
  \/ BrevoAfterSave(Pipe)
  \/ \E e \in ApiRequests : StartApiSend(Pipe, e)
  \/ ApiSendDone(Pipe)

SpecIngress == Init /\ [][NextIngress]_vars

(***************************************************************************)
(* Claims about the HTTP entry points.                                     *)
(***************************************************************************)
\* api.ts:73, 78, 111 the answers the webhook handler returns, all with 200.
WebhookAnswers ==
  {"No message found in webhook", "Duplicate message skipped",
   "Webhook received successfully"}

\* C11: the webhook answers 200 for every delivery: whatever fails inside,
\* a finished delivery was answered with one of the handler's 200 answers and
\* no exception left the handler.
C11_WebhookAlways200 ==
  \A p \in Procs :
    (unit[p].kind = "brevohook" /\ unit[p].pc = "done")
    => unit[p].resp \in WebhookAnswers /\ ~unit[p].thrown

\* C20: every message sent through POST /api/messages is in the store as a
\* Message with isIncoming false and responseMode manual.
C20_DirectSendPersisted ==
  \A p \in Procs :
    (unit[p].kind = "apiSend" /\ unit[p].sent > 0)
    => \E i \in 1..Len(messages) :
         /\ messages[i].senderId = "api_client"
         /\ messages[i].content = unit[p].ev.text
         /\ ~messages[i].isIncoming
         /\ messages[i].responseMode = "manual"

\* C24: an agent message carrying the echo marker is discarded: the
\* delivery is answered at once, and no chat lookup or creation, no Message,
\* no responder invocation and no send is made for it.
C24_EchoDiscarded ==
  \A p \in Procs :
    (/\ unit[p].kind = "brevohook"
     /\ unit[p].ev.type = "agent"
     /\ unit[p].ev.dummy)
    => /\ unit[p].pc = "done"
       /\ ~unit[p].thrown
       /\ call[p] = NoCall
       /\ unit[p].chat = NoChat
       /\ unit[p].msg = NoMsg
       /\ ~unit[p].saved
       /\ unit[p].ai = 0
       /\ unit[p].sent = 0

\* An echo that was not a duplicate delivery was handed to
\* processAgentMessage and answered.
C24_Witness ==
  /\ unit[Pipe].kind = "brevohook"
  /\ unit[Pipe].ev.type = "agent"
  /\ unit[Pipe].ev.dummy
  /\ unit[Pipe].nproc = 1
  /\ unit[Pipe].resp = "Webhook received successfully"

\* C27: the first visitor event of a thread the store does not know, in
\* either announced shape, creates one Chat with platformChatId =
\* visitor.threadId and source = visitor.source and then saves one Message
\* of that chat with content = message.text, isIncoming true, type text
\* (there is no attachment) and timestamp = message.createdAt; a Message
\* always belongs to a chat that exists.
C27_FirstEventCreatesChatThenMessage ==
  /\ \A j \in 1..Len(messages) : messages[j].chatId \in 1..Len(chats)
  /\ \A p \in Procs :
       LET e == unit[p].ev
           own == {i \in 1..Len(chats) : chats[i].platformChatId = e.threadId}
       IN  (/\ unit[p].kind = "brevohook"
            /\ IsVisitor(e) /\ e.visitor
            /\ unit[p].snap = {}
            /\ faults = 0
            /\ unit[p].pc = "done"
            /\ unit[p].resp = "Webhook received successfully")
           => /\ Cardinality(own) = 1
              /\ \A i \in own : chats[i].source = e.vsource
              /\ Cardinality({j \in 1..Len(messages) :
                                /\ messages[j].platformMessageId = e.id
                                /\ messages[j].chatId \in own
                                /\ messages[j].content = e.text
                                /\ messages[j].isIncoming
                                /\ messages[j].type = "text"
                                /\ messages[j].timestamp = e.createdAt}) = 1

\* A conversationFragment event with messages[0] of an unknown thread was
\* handled: its chat and its Message are in the store.
C27_Witness ==
  /\ unit[Pipe].kind = "brevohook"
  /\ unit[Pipe].ev.shape = "messages"
  /\ IsVisitor(unit[Pipe].ev)
  /\ unit[Pipe].snap = {}
  /\ faults = 0
  /\ unit[Pipe].pc = "done"
  /\ unit[Pipe].saved
  /\ Len(chats) = 1
  /\ Len(messages) = 1

(***************************************************************************)
(* SpecWriters: everything that writes the store, two units of work at a   *)
(* time: the adapters' gateway calls for an inbound event (the chat        *)
(* lookup, the save of the Message), responder invocations for a chat in   *)
(* autoMode, and requests to the auto-mode endpoint.  Nothing fails.       *)
(***************************************************************************)
\* brevo.ts:30, telegram.ts:48: an adapter looks the chat of an event up.
AdapterLooksUp(p) == StartGateway(p, "findOrCreateChat")

\* brevo.ts:99, telegram.ts:63: an adapter saves the Message of an event of
\* chat i.
AdapterSaves(p, i, m) ==
  /\ Free(p)
  /\ started' = started + 1
  /\ unit' = [unit EXCEPT ![p] = [IdleUnit EXCEPT !.kind = "gateway",
                                                  !.pc = "call", !.msg = m]]
  /\ call' = [call EXCEPT ![p] = SaveMessageCall(m)]
  /\ UNCHANGED <<storeVars, envVars, dedupVars, now, focReturned, threads>>

\* brevo.ts:101-107, telegram.ts:66, 157-163: an adapter calls getAIResponse
\* for a text message of a chat it found in autoMode.
AdapterInvokes(p, i, m) ==
  /\ Free(p)
  /\ chats[i].autoMode
  /\ m.type = "text"
  /\ BeginResponder(p, i, m)

\* Requests to the auto-mode endpoint that carry a value and the key.
WriterToggles == {e \in ToggleRequests : e.autoMode # Undefined}

NextWriters ==
  \/ \E p \in Procs : AdapterLooksUp(p)
  \/ \E p \in Procs, i \in 1..Len(chats) : \E m \in RespMessages(i) :
       AdapterSaves(p, i, m)
  \/ \E p \in Procs, i \in 1..Len(chats) : \E m \in RespMessages(i) :
       AdapterInvokes(p, i, m)
  \/ \E p \in Procs : RespThreadCreate(p)
  \/ \E p \in Procs : RespAfterGetChat(p)
  \/ \E p \in Procs : RespAfterSaveChat(p)
  \/ \E p \in Procs : RespSubmit(p)
  \/ \E p \in Procs : RacePoll(p)
  \/ \E p \in Procs : RespList(p)
  \/ \E p \in Procs, e \in WriterToggles : HttpToggle(p, e)
  \/ \E p \in Procs : TglAfterGet(p)
  \/ \E p \in Procs : TglUpdate(p)
  \/ \E p \in Procs : GwReply(p)

SpecWriters == InitRace /\ [][NextWriters]_vars

\* C34: a chat findOrCreateChat creates starts with autoMode false and no
\* thread handle, and the stored autoMode of a chat goes from false to true
\* only in the step in which a request to the auto-mode endpoint asking for
\* true has its update accepted.
C34_AutoModeOnlyByToggle ==
  [][/\ \A i \in 1..Len(chats') :
          i > Len(chats) => ~chats'[i].autoMode /\ chats'[i].openAIThreadId = ""
     /\ \A i \in 1..Len(chats) :
          (~chats[i].autoMode /\ chats'[i].autoMode)
          => \E p \in Procs :
               /\ unit[p].kind = "toggle"
               /\ unit[p].pc \in {"tglUpdate", "tglRetry"}
               /\ unit[p].ev.chatId = i
               /\ unit[p].ev.autoMode = "true"
               /\ unit'[p].resp = "200 success"]_vars

\* C38: the responder's saveChat that assigns the thread handle changes
\* only openAIThreadId of the stored chat: the autoMode (written, maybe, by
\* a toggle request since the responder read the chat), the platformChatId
\* and the source of the chat are after the saveChat what they were just
\* before it.
C38_AssignmentKeepsAutoMode ==
  [][\A p \in Procs :
       (/\ unit[p].kind = "responder"
        /\ call[p].op = "updatechat"
        /\ call[p].ph = "req"
        /\ call'[p].ph = "ret"
        /\ call'[p].out = "ok")
       => chats'[call[p].arg.chat.id] =
            [chats[call[p].arg.chat.id] EXCEPT !.openAIThreadId = unit[p].thr]]_vars

\* C35: no step deletes a chat, and no step deletes or changes a stored
\* Message: the messages only grow, and every Message stays as it was saved.
C35_MessagesImmutable ==
  [][/\ Len(chats') >= Len(chats)
     /\ Len(messages') >= Len(messages)
     /\ \A j \in 1..Len(messages) : messages'[j] = messages[j]]_vars

\* Two different Messages of a chat were saved, one after the other: both
\* are in the store.
C35_Witness ==
  /\ Len(messages) = 2
  /\ messages[1] # messages[2]
  /\ \A p \in Procs : Returned(p) /\ call[p].m = "saveMessage"

(***************************************************************************)
(* SpecSources: events of one conversation thread id reaching the adapters *)
(* under different source tags, one event after another: visitor and agent *)
(* messages of the aggregator's channels and a bot update.  Nothing fails. *)
(***************************************************************************)
\* Visitor and agent messages of thread t1 whose visitor descriptor names
\* the widget, whatsapp or instagram.
SourceBodies ==
  {Body(id, "message", "conversationStarted", "visitor", FALSE, "t1", vs,
        "none", FALSE, "Hola") :
     id \in EventIds, vs \in {"widget", "whatsapp", "instagram"}}
  \cup {Body(id, "messages", "conversationFragment", "agent", FALSE, "t1", vs,
             "none", FALSE, "Hola") :
          id \in EventIds, vs \in {"widget", "whatsapp", "instagram"}}

NextSources ==
  \/ \E b \in SourceBodies : StartWebhook(Pipe, b)
  \/ \E k \in TgEvents : k[1] = "tgText" /\ StartTgText(Pipe, k[2])
  \/ GwReply(Pipe)
  \/ BrevoAfterChat(Pipe)
  \/ BrevoAfterSave(Pipe)
  \/ TgAfterChat(Pipe)
  \/ TgAfterSave(Pipe)

SpecSources == InitDedup /\ [][NextSources]_vars

\* C36: findOrCreateChat(platformChatId, source) returns a chat of that
\* platformChatId and that source, and the chats it has returned for one
\* platformChatId under two sources are different chats.
C36_ChatOfRequestedPair ==
  /\ \A p \in Procs :
       (call[p].m = "findOrCreateChat" /\ Returned(p) /\ call[p].out = "ok")
       => /\ call[p].res.platformChatId = call[p].arg.pid
          /\ call[p].res.source = call[p].arg.source
  /\ \A k1, k2 \in DOMAIN focReturned :
       (k1[2] = k2[2] /\ k1[1] # k2[1])
       => focReturned[k1] \cap focReturned[k2] = {}

\* C37: the source of every stored Message is the source of its chat.
C37_MessageSourceIsChatSource ==
  \A j \in 1..Len(messages) :
    messages[j].chatId \in 1..Len(chats)
    => messages[j].source = chats[messages[j].chatId].source

\* Stored Messages of webhook event e.
MessagesOfEvent(e) ==
  {j \in 1..Len(messages) : messages[j].platformMessageId = e}

\* C39: the id of a webhook event is in the dedup cache from the moment its
\* processing starts and stays there when the processing fails (the chat
\* lookup answered null, saveMessage threw).  A delivery of an id that is
\* in the cache is skipped: it starts no processing and no store call.  So
\* an event is processed at most once, and an event whose processing failed
\* has no Message in the store, after its redelivery too.
C39_FailedEventStaysSeen ==
  /\ \A e \in EventIds :
       /\ Len(procLog[e]) <= 1
       /\ Cardinality(MessagesOfEvent(e)) <= Len(procLog[e])
  /\ \A p \in Procs :
       unit[p].kind = "brevohook"
       => /\ unit[p].nproc = 1 => unit[p].ev.id \in DOMAIN processedMessages
          /\ (unit[p].nullChat \/ unit[p].saveFailed)
               => /\ unit[p].pc = "done"
                  /\ unit[p].ev.id \in DOMAIN processedMessages
                  /\ MessagesOfEvent(unit[p].ev.id) = {}
          /\ unit[p].resp = "Duplicate message skipped"
               => /\ unit[p].pc = "done"
                  /\ unit[p].nproc = 0
                  /\ call[p] = NoCall
                  /\ ~unit[p].saved

\* The first delivery of a visitor message failed while it was processed;
\* its redelivery was skipped, and the store holds no Message of the event.
C39_Witness ==
  /\ unit[Pipe].kind = "brevohook"
  /\ unit[Pipe].resp = "Duplicate message skipped"
  /\ IsVisitor(unit[Pipe].ev)
  /\ Len(procLog[unit[Pipe].ev.id]) = 1
  /\ started = 2
  /\ faults = 1
  /\ MessagesOfEvent(unit[Pipe].ev.id) = {}

\* C40: POST /api/messages answers success (200, success true) only for a
\* message the adapter delivered: a request whose send failed, on the
\* bot channel or through the aggregator, is answered with success false.
C40_SuccessOnlyWhenDelivered ==
  \A p \in Procs :
    (unit[p].kind = "apiSend" /\ unit[p].pc = "done")
    => /\ unit[p].resp = "200 Message sent" => unit[p].sent = 1
       /\ (unit[p].platform # "" /\ unit[p].sent = 0)
            => unit[p].resp \notin {"200 Message sent"}

====
